---- MODULE Spec2Model ----
(***************************************************************************)
(* Number Crunch (src/app/projects/number-crunch/number-crunch.ts): the    *)
(* game state machine, the combat timers, grid selection and matching,     *)
(* the scramble, the asset loading gate and the leaderboard hand-off.      *)
(*                                                                         *)
(* Units: times are milliseconds, positions are canvas pixels, and         *)
(* damageBonus is kept in tenths (the source adds 0.5 per upgrade).        *)
(***************************************************************************)
EXTENDS Integers, Sequences, FiniteSets, TLC

VARIABLES
    currentState,            \* GameState
    settings,                \* GameSettings: difficulty, muted
    grid,                    \* grid[y][x] = [value, selected, x, y]
    targetNumber, score, lastHealthBonus, lastScrambleBonus, level,
    playerHealth, enemyHealth, nextTarget,
    enemyAttackTimer,
    healthBonus, damageBonus, damageBase, enemyMaxHealth,
    isSelecting, selectionStart, selectionEnd, selectedSum,
    scramblesRemaining, isScrambling, scrambleTimer, scrambleAnimation,
    pendingLeaderboardScore, leaderboardNameInput,
    topEntriesQueries,       \* getTopEntries calls awaited by handleGameOverLeaderboard
    addEntryCalls,           \* addEntry calls awaited by submitLeaderboardName
    entriesWritten,          \* number of addEntry calls made so far
    loadedAssets, loadingProgress,
    loadedCount,             \* per group: the element events counted so far
    timeoutState,            \* per group: "armed", "cleared", "fired" or "none"
    promiseResolved,         \* per group: the load promise has resolved
    gamesStarted,            \* number of startGame calls (bounds the exploration)
    damageUpgradeCount, healthUpgradeCount,
    leaderboardEntries, isLoadingLeaderboard, isLeaderboardAvailable,
    leaderboardLoads,        \* loadLeaderboard calls in flight: the await each waits at
    isDraggingBGM, isDraggingSFX,
    previousState,           \* the state seen by the last updateBGMVolumeForState
    bgmFadeInProgress, bgmFadeOutProgress,
    bgmFadeTarget, bgmFadeStartVolume,   \* in two-hundredths, as the volumes
    bgmFadeProgress,         \* in fiftieths: one step of 0.02 is 1
    bgmAudioVolume           \* bgmAudio.volume, in two-hundredths

gameVars == <<grid, targetNumber, score, lastHealthBonus, lastScrambleBonus, level,
              playerHealth, enemyHealth, nextTarget, enemyAttackTimer,
              healthBonus, damageBonus, damageBase, enemyMaxHealth>>
selectionVars == <<isSelecting, selectionStart, selectionEnd, selectedSum>>
scrambleVars == <<scramblesRemaining, isScrambling, scrambleTimer, scrambleAnimation>>
leaderboardVars == <<pendingLeaderboardScore, leaderboardNameInput, topEntriesQueries,
                     addEntryCalls, entriesWritten>>
loadVars == <<loadedAssets, loadingProgress, loadedCount, timeoutState, promiseResolved>>
upgradeCountVars == <<damageUpgradeCount, healthUpgradeCount>>
boardVars == <<leaderboardEntries, isLoadingLeaderboard, isLeaderboardAvailable,
               leaderboardLoads>>
sliderVars == <<isDraggingBGM, isDraggingSFX>>
fadeVars == <<previousState, bgmFadeInProgress, bgmFadeOutProgress, bgmFadeTarget,
              bgmFadeStartVolume, bgmFadeProgress>>
audioVars == <<fadeVars, bgmAudioVolume>>
stateVars == <<currentState, settings, gameVars, selectionVars, scrambleVars,
               leaderboardVars, loadVars, gamesStarted, upgradeCountVars, boardVars, sliderVars>>
vars == <<stateVars, audioVars>>

(***************************************************************************)
(* Constants of the component                                              *)
(***************************************************************************)
LOADING == "loading"
MENU == "menu"
PLAYING == "playing"
OPTIONS == "options"
GAME_OVER == "game_over"
CHOOSE_UPGRADE == "choose_upgrade"
LEADERBOARD == "leaderboard"
LEADERBOARD_NAME_INPUT == "leaderboard_name_input"
GameState == {LOADING, MENU, PLAYING, OPTIONS, GAME_OVER, CHOOSE_UPGRADE,
              LEADERBOARD, LEADERBOARD_NAME_INPUT}
Difficulty == {"easy", "normal", "hard"}

GRID_SIZE == 10
CELL_SIZE == 40
CANVAS_SIZE == GRID_SIZE * CELL_SIZE
MAX_HEALTH == 120
ENEMY_MAX_HEALTH == 450
EASY_HEALTH == 150
HARD_HEALTH == 75
EASY_DAMAGE_BASE == 8
NORMAL_DAMAGE_BASE == 10
HARD_DAMAGE_BASE == 12
ENEMY_ATTACK_DAMAGE == 8
ENEMY_ATTACK_INTERVAL == 8000
HEALTH_UPGRADE_BONUS == 5
DAMAGE_UPGRADE_BONUS == 5          \* tenths: 0.5 damage per tile
SCRAMBLES_PER_LEVEL == 3
SCRAMBLE_ANIMATION_DURATION == 2000
POINTS_PER_TILE == 10
TARGET_BASE == 9
TARGET_RANDOM_MIN == 0
TARGET_RANDOM_MAX == 1
CELL_VALUE_MIN == 1
CELL_VALUE_MAX == 9
INITIAL_TARGET == 10
EMPTY_TILE_POINTS == 1
SCRAMBLE_BONUS_POINTS == 50
BGM_VOLUME == 50          \* settings.bgmVolume 0.25, in two-hundredths
SFX_VOLUME == 70          \* settings.sfxVolume 0.35, in two-hundredths
TOP_COUNT == 10

Coord == 0 .. (GRID_SIZE - 1)

Max(a, b) == IF a >= b THEN a ELSE b
Min(a, b) == IF a <= b THEN a ELSE b

\* Math.round of the rational n / d (d > 0, n >= 0): halves round up.
Round(n, d) == (2 * n + d) \div (2 * d)

\* A faulty conversion that clamps a pixel outside the grid to the nearest
\* cell; the refusal of a pointer outside the grid must fail under it.
CellOfClamped(v) == Max(0, Min(GRID_SIZE - 1, v \div CELL_SIZE))

\* Math.floor(v / CELL_SIZE)
CellOf(v) == v \div CELL_SIZE

(***************************************************************************)
(* Grid: createGrid, updateSelection, clearSelection                       *)
(***************************************************************************)
\* A faulty createGrid that forgets to add CELL_VALUE_MIN to the draw; the
\* range of the values of a fresh grid must fail under it.
CreateGridFromZero(vals) ==
    [y \in Coord |-> [x \in Coord |->
        [value |-> vals[y][x] - CELL_VALUE_MIN, selected |-> FALSE, x |-> x, y |-> y]]]

\* createGrid, for one outcome of the random draws: vals[y][x] in 1..9.
CreateGrid(vals) ==
    [y \in Coord |-> [x \in Coord |->
        [value |-> vals[y][x], selected |-> FALSE, x |-> x, y |-> y]]]

\* Outcomes of the random draws used by the specifications: the first cells
\* of row 0 (in row-major order) take the values of head, every other cell
\* draws CELL_VALUE_MIN.
DrawnValues(head) ==
    [y \in Coord |-> [x \in Coord |->
        IF y = 0 /\ x < Len(head) THEN head[x + 1] ELSE CELL_VALUE_MIN]]

\* A faulty clearSelection that flips every flag instead of lowering it; the
\* idempotence of clearing the selection must fail under it.
ClearSelectionToggled(g) ==
    [y \in Coord |-> [x \in Coord |-> [g[y][x] EXCEPT !.selected = ~@]]]

\* clearSelection: the grid it leaves (selectedSum becomes 0 beside it)
ClearSelectionGrid(g) ==
    [y \in Coord |-> [x \in Coord |-> [g[y][x] EXCEPT !.selected = FALSE]]]

\* A faulty rectangle that takes start and end as they come; the selection
\* dragged up or to the left must fail under it.
RectOfUnordered(s, e) ==
    [startX |-> s.x, startY |-> s.y, endX |-> e.x, endY |-> e.y]

\* The normalized rectangle of a selection.
RectOf(s, e) ==
    [startX |-> Min(s.x, e.x), startY |-> Min(s.y, e.y),
     endX |-> Max(s.x, e.x), endY |-> Max(s.y, e.y)]

InRect(r, x, y) == r.startX <= x /\ x <= r.endX /\ r.startY <= y /\ y <= r.endY

RECURSIVE SumRow(_, _, _, _)
SumRow(g, y, x, endX) ==
    IF x > endX THEN 0 ELSE g[y][x].value + SumRow(g, y, x + 1, endX)

RECURSIVE SumRect(_, _, _)
SumRect(g, r, y) ==
    IF y > r.endY THEN 0 ELSE SumRow(g, y, r.startX, r.endX) + SumRect(g, r, y + 1)

\* updateSelection: the grid with exactly the rectangle selected, and the sum.
UpdateSelectionGrid(g, s, e) ==
    LET r == RectOf(s, e)
    IN  [y \in Coord |-> [x \in Coord |->
            [g[y][x] EXCEPT !.selected = InRect(r, x, y)]]]

UpdateSelectionSum(g, s, e) == SumRect(g, RectOf(s, e), RectOf(s, e).startY)

(***************************************************************************)
(* processMatch                                                            *)
(***************************************************************************)
RECURSIVE CountRow(_, _, _, _)
CountRow(g, y, x, endX) ==
    IF x > endX THEN 0
    ELSE (IF g[y][x].value # 0 THEN 1 ELSE 0) + CountRow(g, y, x + 1, endX)

RECURSIVE CountRect(_, _, _)
CountRect(g, r, y) ==
    IF y > r.endY THEN 0 ELSE CountRow(g, y, r.startX, r.endX) + CountRect(g, r, y + 1)

TilesWithValues(g, s, e) == CountRect(g, RectOf(s, e), RectOf(s, e).startY)

TotalTilesInSelection(s, e) ==
    LET r == RectOf(s, e) IN (r.endX - r.startX + 1) * (r.endY - r.startY + 1)

\* A faulty removal that spares the last column of the rectangle; the empty
\* rectangle left by a match must fail under it.
MatchGridSparing(g, s, e) ==
    LET r == RectOf(s, e)
    IN  [y \in Coord |-> [x \in Coord |->
            [g[y][x] EXCEPT !.value = IF InRect(r, x, y) /\ x < r.endX THEN 0 ELSE @,
                            !.selected = FALSE]]]

\* The grid after the rectangle is marked for removal and the selection cleared.
MatchGrid(g, s, e) ==
    LET r == RectOf(s, e)
    IN  [y \in Coord |-> [x \in Coord |->
            [g[y][x] EXCEPT !.value = IF InRect(r, x, y) THEN 0 ELSE @,
                            !.selected = FALSE]]]

ScoreEarned(tiles, total) == tiles * POINTS_PER_TILE + (total - tiles) * EMPTY_TILE_POINTS

\* Math.round(tilesWithValues * (damageBase + damageBonus)), damageBonus in tenths.
DamageDealt(tiles, base, bonus) == Round(tiles * (10 * base + bonus), 10)

(***************************************************************************)
(* scrambleBoard                                                           *)
(***************************************************************************)
\* Grid positions in row-major order, as the loops of scrambleBoard visit them.
RowMajor == [k \in 1 .. (GRID_SIZE * GRID_SIZE) |->
                [x |-> (k - 1) % GRID_SIZE, y |-> (k - 1) \div GRID_SIZE]]

\* originalCells: the non-zero cells with their positions and values.
OriginalCells(g) ==
    LET nz == SelectSeq(RowMajor, LAMBDA c : g[c.y][c.x].value # 0)
    IN  [k \in 1 .. Len(nz) |-> [x |-> nz[k].x, y |-> nz[k].y,
                                  value |-> g[nz[k].y][nz[k].x].value]]

\* A faulty swap that overwrites a[i] and loses its old content; the
\* preservation of the tile values must fail under it.
SwapOverwrite(a, i, j) == [a EXCEPT ![i] = a[j]]

Swap(a, i, j) == [a EXCEPT ![i] = a[j], ![j] = a[i]]

\* The Fisher-Yates loop over indices 0 .. n-1: at step i (from n-1 down to 1)
\* the draw js[i] in 0 .. i is swapped with i.  FisherYates(a, hi, lo, js) runs
\* the steps hi, hi-1, ..., lo in that order; the range is halved, and the
\* first half carried out before the second begins, to keep evaluation shallow.
RECURSIVE FisherYates(_, _, _, _)
FisherYates(a, hi, lo, js) ==
    IF hi < lo THEN a
    ELSE IF hi = lo THEN Swap(a, hi, js[hi])
    ELSE LET mid == (hi + lo) \div 2
             upper == FisherYates(a, hi, mid + 1, js)
         IN  IF DOMAIN upper = DOMAIN a THEN FisherYates(upper, mid, lo, js) ELSE a

ShuffledIndices(n, js) == FisherYates([i \in 0 .. (n - 1) |-> i], n - 1, 1, js)

\* The draws of one scramble of n cells in which only the last w-1 steps of
\* the loop (i < w) draw freely and every earlier step draws j = i.
Draws(n, w) ==
    LET m == Min(n, w)
        free == {f \in [1 .. (m - 1) -> 0 .. (m - 1)] : \A i \in 1 .. (m - 1) : f[i] <= i}
    IN  {[i \in 1 .. (n - 1) |-> IF i < m THEN f[i] ELSE i] : f \in free}

\* Index (from 0) of position (x, y) in originalCells.
CellIndex(cells, x, y) ==
    (CHOOSE k \in 1 .. Len(cells) : cells[k].x = x /\ cells[k].y = y) - 1

\* A faulty assignment that leaves every tile where it was; the agreement of
\* the grid with the animation list must fail under it.
SourceCellInPlace(cells, shuffled, x, y) == cells[CellIndex(cells, x, y) + 1]

\* The source cell assigned to the non-zero position (x, y).
SourceCell(cells, shuffled, x, y) == cells[shuffled[CellIndex(cells, x, y)] + 1]

\* The grid after the assignment loop; originalCells and shuffledIndices are
\* complete before the first cell is rewritten.
ScrambleGrid(g, js) ==
    LET cells == OriginalCells(g)
        shuffled == ShuffledIndices(Len(cells), js)
    IN  IF Len(cells) = 0 \/ DOMAIN shuffled = {}
        THEN g
        ELSE [y \in Coord |-> [x \in Coord |->
                IF g[y][x].value # 0
                THEN [g[y][x] EXCEPT !.value = SourceCell(cells, shuffled, x, y).value]
                ELSE g[y][x]]]

PixelCentre(c) == c * CELL_SIZE + CELL_SIZE \div 2

ScrambleAnimation(g, js) ==
    LET cells == OriginalCells(g)
        shuffled == ShuffledIndices(Len(cells), js)
    IN  [k \in 1 .. Len(cells) |->
            LET src == cells[shuffled[k - 1] + 1]
            IN  [oldPos |-> [x |-> PixelCentre(src.x), y |-> PixelCentre(src.y)],
                 newPos |-> [x |-> PixelCentre(cells[k].x), y |-> PixelCentre(cells[k].y)],
                 value |-> src.value]]

(***************************************************************************)
(* Difficulty                                                              *)
(***************************************************************************)
BaseHealth(d) ==
    CASE d = "easy" -> EASY_HEALTH
      [] d = "normal" -> MAX_HEALTH
      [] d = "hard" -> HARD_HEALTH

\* A faulty setting that gives every difficulty the normal health; the health
\* of a started game must fail under it.
PlayerHealthFlat(d, bonus) == MAX_HEALTH + bonus

\* applyDifficultySettings: playerHealth
DifficultyPlayerHealth(d, bonus) == BaseHealth(d) + bonus

\* A faulty setting that gives the normal damage base on every difficulty;
\* the damage base of each difficulty must fail under it.
DamageBaseFlat(d) == NORMAL_DAMAGE_BASE

\* applyDifficultySettings: damageBase
DifficultyDamageBase(d) ==
    CASE d = "easy" -> EASY_DAMAGE_BASE
      [] d = "normal" -> NORMAL_DAMAGE_BASE
      [] d = "hard" -> HARD_DAMAGE_BASE

\* A faulty setting that gives the enemy the normal health on every
\* difficulty; the enemy health of a new level must fail under it.
EnemyMaxHealthFlat(d) == ENEMY_MAX_HEALTH

\* applyDifficultySettings: enemyMaxHealth
DifficultyEnemyMaxHealth(d) ==
    CASE d = "easy" -> (ENEMY_MAX_HEALTH * EASY_DAMAGE_BASE) \div NORMAL_DAMAGE_BASE
      [] d = "normal" -> ENEMY_MAX_HEALTH
      [] d = "hard" -> (ENEMY_MAX_HEALTH * HARD_DAMAGE_BASE) \div NORMAL_DAMAGE_BASE

\* getDifficultyMultiplier, in hundredths.
DifficultyMultiplier(d) ==
    CASE d = "easy" -> 75
      [] d = "normal" -> 100
      [] d = "hard" -> 125

\* A faulty final score that leaves the difficulty multiplier out; the final
\* score of an Easy or Hard run must fail under it.
FinalScoreUnscaled(s, d) == s

\* Math.round(score * difficultyMultiplier)
FinalScore(s, d) == Round(s * DifficultyMultiplier(d), 100)

\* The double arithmetic of Math.floor(score * (playerHealth / MAX_HEALTH) * 0.5)
\* falls one short of the exact quotient for these scores, listed by health:
\* the scores below 4096 for every health up to 160.
FloatShortfall ==
    11 :> {1200, 2400, 2640} @@
    21 :> {720, 1360, 1440, 2640, 2720, 2800, 2880} @@
    22 :> {600, 1200, 1320, 2280, 2400, 2520, 2640, 2760} @@
    42 :> {360, 680, 720, 1320, 1360, 1400, 1440, 2600, 2640, 2680, 2720, 2760, 2800, 2840,
        2880, 2920} @@
    44 :> {300, 600, 660, 1140, 1200, 1260, 1320, 1380, 2220, 2280, 2340, 2400, 2460, 2520,
        2580, 2640, 2700, 2760} @@
    65 :> {432, 816, 864, 912, 1584, 1632, 1680, 1728, 1776, 1824, 1872, 3120, 3168, 3216,
        3264, 3312, 3360, 3408, 3456, 3504, 3552, 3600, 3648, 3696, 3744} @@
    69 :> {400, 720, 800, 880, 1360, 1440, 1520, 1600, 1680, 1760, 2640, 2720, 2800, 2880,
        2960, 3040, 3120, 3200, 3280, 3360, 3440, 3520} @@
    73 :> {720, 1200, 1440, 1680, 2400, 2640, 2880, 3120, 3360} @@
    84 :> {180, 340, 360, 660, 680, 700, 720, 1300, 1320, 1340, 1360, 1380, 1400, 1420, 1440,
        1460, 2580, 2600, 2620, 2640, 2660, 2680, 2700, 2720, 2740, 2760, 2780, 2800, 2820,
        2840, 2860, 2880, 2900, 2920} @@
    88 :> {150, 300, 330, 570, 600, 630, 660, 690, 1110, 1140, 1170, 1200, 1230, 1260, 1290,
        1320, 1350, 1380, 2220, 2250, 2280, 2310, 2340, 2370, 2400, 2430, 2460, 2490, 2520,
        2550, 2580, 2610, 2640, 2670, 2700, 2730, 2760, 2790} @@
    122 :> {3960} @@
    123 :> {240, 400, 480, 720, 800, 880, 960, 1360, 1440, 1520, 1600, 1680, 1760, 1840, 1920,
        2640, 2720, 2800, 2880, 2960, 3040, 3120, 3200, 3280, 3360, 3440, 3520, 3600, 3680,
        3760, 3840, 3920} @@
    130 :> {216, 408, 432, 456, 792, 816, 840, 864, 888, 912, 936, 1560, 1584, 1608, 1632,
        1656, 1680, 1704, 1728, 1752, 1776, 1800, 1824, 1848, 1872, 3096, 3120, 3144, 3168,
        3192, 3216, 3240, 3264, 3288, 3312, 3336, 3360, 3384, 3408, 3432, 3456, 3480, 3504,
        3528, 3552, 3576, 3600, 3624, 3648, 3672, 3696, 3720, 3744, 3768} @@
    131 :> {720, 1200, 1440, 1680, 2400, 2640, 2880, 3120, 3360, 3600} @@
    138 :> {200, 360, 400, 440, 680, 720, 760, 800, 840, 880, 1320, 1360, 1400, 1440, 1480,
        1520, 1560, 1600, 1640, 1680, 1720, 1760, 2600, 2640, 2680, 2720, 2760, 2800, 2840,
        2880, 2920, 2960, 3000, 3040, 3080, 3120, 3160, 3200, 3240, 3280, 3320, 3360, 3400,
        3440, 3480, 3520, 3560} @@
    145 :> {816, 1584, 1632, 1680, 3120, 3168, 3216, 3264, 3312, 3360} @@
    146 :> {360, 600, 720, 840, 1200, 1320, 1440, 1560, 1680, 2280, 2400, 2520, 2640, 2760,
        2880, 3000, 3120, 3240, 3360} @@
    153 :> {400, 720, 800, 1360, 1440, 1520, 1600, 2640, 2720, 2800, 2880, 2960, 3040, 3120,
        3200}

HealthBonusOf(s, health) ==
    (s * health) \div (2 * MAX_HEALTH)
        - (IF health \in DOMAIN FloatShortfall /\ s \in FloatShortfall[health] THEN 1 ELSE 0)

\* A faulty bonus that forgets the scrambles left; the stored scramble bonus
\* must fail under it.
ScrambleBonusFlat(remaining) == SCRAMBLE_BONUS_POINTS

ScrambleBonusOf(remaining) == remaining * SCRAMBLE_BONUS_POINTS

\* A faulty calculation that takes the level just won instead of the next;
\* the target of the next level must fail under it.
CalculateNextTargetOfLevel(lvl, r) == TARGET_BASE + lvl + r

\* calculateNextTarget, for the random draw r in TARGET_RANDOM_MIN .. TARGET_RANDOM_MAX
CalculateNextTarget(lvl, r) == TARGET_BASE + (lvl + 1) + r

(***************************************************************************)
(* Buttons and hit tests (canvas pixels)                                   *)
(***************************************************************************)
Button(bx, by, w, h) == [x |-> bx, y |-> by, width |-> w, height |-> h]

MENU_PLAY_BUTTON == Button(CANVAS_SIZE \div 2, 180, 200, 50)
MENU_OPTIONS_BUTTON == Button(CANVAS_SIZE \div 2, 250, 200, 50)
MENU_LEADERBOARD_BUTTON == Button(CANVAS_SIZE \div 2, 320, 200, 50)
PLAYING_SCRAMBLE_BUTTON == Button(CANVAS_SIZE \div 2, CANVAS_SIZE + 30, 120, 35)
OPTIONS_EASY_BUTTON == Button(CANVAS_SIZE \div 2, 230, 150, 40)
OPTIONS_NORMAL_BUTTON ==
    Button(CANVAS_SIZE \div 2, OPTIONS_EASY_BUTTON.y + OPTIONS_EASY_BUTTON.height + 10, 150, 40)
OPTIONS_HARD_BUTTON ==
    Button(CANVAS_SIZE \div 2, OPTIONS_NORMAL_BUTTON.y + OPTIONS_NORMAL_BUTTON.height + 10, 150, 40)
OPTIONS_BACK_BUTTON == Button(CANVAS_SIZE \div 2, CANVAS_SIZE + 30, 160, 40)
LEADERBOARD_BACK_BUTTON == Button(CANVAS_SIZE \div 2, CANVAS_SIZE + 60, 160, 40)
LEADERBOARD_NAME_SUBMIT_BUTTON == Button(CANVAS_SIZE \div 2 - 100, 340, 160, 45)
LEADERBOARD_NAME_SKIP_BUTTON == Button(CANVAS_SIZE \div 2 + 100, 340, 160, 45)
GAME_OVER_PLAY_AGAIN_BUTTON == Button(CANVAS_SIZE \div 2, 300, 180, 50)
GAME_OVER_MAIN_MENU_BUTTON == Button(CANVAS_SIZE \div 2, 380, 180, 50)
CHOOSE_UPGRADE_HEALTH_BUTTON == Button(CANVAS_SIZE \div 2, 225, 160, 50)
CHOOSE_UPGRADE_DAMAGE_BUTTON == Button(CANVAS_SIZE \div 2, 295, 160, 50)

\* isClickInButton (compared doubled, the half sizes need not be integers)
IsClickInButton(p, b) ==
    /\ 2 * p.x >= 2 * b.x - b.width
    /\ 2 * p.x <= 2 * b.x + b.width
    /\ 2 * p.y >= 2 * b.y - b.height
    /\ 2 * p.y <= 2 * b.y + b.height

\* isClickInSlider, with the extra padding of 10 for the handle
IsClickInSlider(p, sx, sy, w, h) ==
    /\ 2 * p.x >= 2 * sx - w
    /\ 2 * p.x <= 2 * sx + w
    /\ 2 * p.y >= 2 * sy - h - 20
    /\ 2 * p.y <= 2 * sy + h + 20

InGrid(gx, gy) == gx >= 0 /\ gx < GRID_SIZE /\ gy >= 0 /\ gy < GRID_SIZE

Centre(b) == [x |-> b.x, y |-> b.y]
CellPoint(gx, gy) == [x |-> PixelCentre(gx), y |-> PixelCentre(gy)]

(***************************************************************************)
(* Bounds of the exploration                                               *)
(***************************************************************************)
MaxGames == 1            \* startGame calls explored
MaxLevel == 1            \* levels explored
ShuffleWindow == 2       \* steps of the Fisher-Yates loop that draw freely

(***************************************************************************)
(* Background music: volume and fades                                      *)
(***************************************************************************)
AUDIO_DEFAULT_VOLUME == 200   \* the volume 1.0 of new Audio(), in two-hundredths
FADE_COMPLETE == 50           \* bgmFadeProgress >= 1, in fiftieths

\* updateBGMVolume: the value it gives bgmAudio.volume under settings s
UpdateBGMVolume(s) == IF s.muted THEN 0 ELSE s.bgmVolume

\* easeInOutQuad at progress p fiftieths, in ten-thousandths
EaseInOutQuad(p) ==
    IF 2 * p < FADE_COMPLETE THEN 8 * p * p ELSE 10000 - 2 * (100 - 2 * p) * (100 - 2 * p)

\* startBGMFade
StartBGMFade(targetVolume, direction) ==
    /\ bgmFadeInProgress' = (direction = "in")
    /\ bgmFadeOutProgress' = (direction = "out")
    /\ bgmFadeTarget' = targetVolume
    /\ bgmFadeStartVolume' = bgmAudioVolume
    /\ bgmFadeProgress' = 0
    /\ UNCHANGED bgmAudioVolume

\* continueBGMFade; the interpolated volume is cut to whole two-hundredths
ContinueBGMFade ==
    IF bgmFadeInProgress \/ bgmFadeOutProgress
    THEN /\ bgmFadeProgress' = bgmFadeProgress + 1
         /\ IF bgmFadeProgress + 1 >= FADE_COMPLETE
            THEN /\ bgmAudioVolume' = bgmFadeTarget
                 /\ bgmFadeInProgress' = FALSE
                 /\ bgmFadeOutProgress' = FALSE
            ELSE /\ bgmAudioVolume' =
                        bgmFadeStartVolume
                            + ((bgmFadeTarget - bgmFadeStartVolume)
                                   * EaseInOutQuad(bgmFadeProgress + 1)) \div 10000
                 /\ UNCHANGED <<bgmFadeInProgress, bgmFadeOutProgress>>
         /\ UNCHANGED <<bgmFadeTarget, bgmFadeStartVolume>>
    ELSE UNCHANGED <<bgmFadeInProgress, bgmFadeOutProgress, bgmFadeTarget,
                     bgmFadeStartVolume, bgmFadeProgress, bgmAudioVolume>>

\* updateBGMVolumeForState, the first call of update. previousState is
\* assigned before the two transitions are tested, so the tests read the
\* state it has just been given.
UpdateBGMVolumeForState ==
    LET stateChanged == previousState # currentState
        previousStateNow == currentState
        shouldBeMuted == currentState = MENU \/ settings.muted
        targetVolume == IF shouldBeMuted THEN 0 ELSE settings.bgmVolume
    IN  /\ previousState' = previousStateNow
        /\ IF stateChanged
           THEN IF currentState = PLAYING /\ previousStateNow = MENU
                THEN StartBGMFade(targetVolume, "in")
                ELSE IF currentState = MENU /\ previousStateNow = PLAYING
                THEN StartBGMFade(0, "out")
                ELSE /\ bgmAudioVolume' = targetVolume
                     /\ bgmFadeInProgress' = FALSE
                     /\ bgmFadeOutProgress' = FALSE
                     /\ UNCHANGED <<bgmFadeTarget, bgmFadeStartVolume, bgmFadeProgress>>
           ELSE ContinueBGMFade

(***************************************************************************)
(* Game operations                                                         *)
(***************************************************************************)
\* startGame, vals being the outcome of createGrid's random draws
StartGame(vals) ==
    /\ gamesStarted' = gamesStarted + 1
    /\ score' = 0
    /\ level' = 1
    /\ targetNumber' = INITIAL_TARGET
    /\ enemyAttackTimer' = 0
    /\ scramblesRemaining' = SCRAMBLES_PER_LEVEL
    /\ isScrambling' = FALSE
    /\ scrambleTimer' = 0
    /\ damageUpgradeCount' = 0
    /\ healthUpgradeCount' = 0
    /\ healthBonus' = 0
    /\ damageBonus' = 0
    /\ selectedSum' = 0
    /\ grid' = CreateGrid(vals)
    /\ playerHealth' = DifficultyPlayerHealth(settings.difficulty, 0)
    /\ damageBase' = DifficultyDamageBase(settings.difficulty)
    /\ enemyMaxHealth' = DifficultyEnemyMaxHealth(settings.difficulty)
    /\ enemyHealth' = DifficultyEnemyMaxHealth(settings.difficulty)
    /\ bgmAudioVolume' = UpdateBGMVolume(settings)
    /\ currentState' = PLAYING
    /\ UNCHANGED <<settings, lastHealthBonus, lastScrambleBonus, nextTarget, isSelecting,
                   selectionStart, selectionEnd, scrambleAnimation, leaderboardVars,
                   loadVars, boardVars, sliderVars, fadeVars>>

\* A faulty nextLevel that caps the health bonus at one upgrade; the
\* accumulation of the bonuses without a cap must fail under it.
NextLevelCapped(hb, db, vals) ==
    /\ healthBonus' = Min(hb, HEALTH_UPGRADE_BONUS)
    /\ damageBonus' = db
    /\ level' = level + 1
    /\ targetNumber' = nextTarget
    /\ scramblesRemaining' = SCRAMBLES_PER_LEVEL
    /\ playerHealth' = DifficultyPlayerHealth(settings.difficulty, hb)
    /\ damageBase' = DifficultyDamageBase(settings.difficulty)
    /\ enemyMaxHealth' = DifficultyEnemyMaxHealth(settings.difficulty)
    /\ enemyHealth' = DifficultyEnemyMaxHealth(settings.difficulty)
    /\ grid' = CreateGrid(vals)
    /\ currentState' = PLAYING
    /\ UNCHANGED <<settings, score, lastHealthBonus, lastScrambleBonus, nextTarget,
                   enemyAttackTimer, selectionVars, isScrambling, scrambleTimer,
                   scrambleAnimation, leaderboardVars, loadVars, gamesStarted,
                   upgradeCountVars, boardVars, sliderVars, audioVars>>

\* nextLevel, entered with the upgraded bonuses hb (health) and db (damage)
NextLevel(hb, db, vals) ==
    /\ healthBonus' = hb
    /\ damageBonus' = db
    /\ level' = level + 1
    /\ targetNumber' = nextTarget
    /\ scramblesRemaining' = SCRAMBLES_PER_LEVEL
    /\ playerHealth' = DifficultyPlayerHealth(settings.difficulty, hb)
    /\ damageBase' = DifficultyDamageBase(settings.difficulty)
    /\ enemyMaxHealth' = DifficultyEnemyMaxHealth(settings.difficulty)
    /\ enemyHealth' = DifficultyEnemyMaxHealth(settings.difficulty)
    /\ grid' = CreateGrid(vals)
    /\ currentState' = PLAYING
    /\ UNCHANGED <<settings, score, lastHealthBonus, lastScrambleBonus, nextTarget,
                   enemyAttackTimer, selectionVars, isScrambling, scrambleTimer,
                   scrambleAnimation, leaderboardVars, loadVars, gamesStarted, upgradeCountVars, boardVars, sliderVars, audioVars>>

\* restartGame: gameOver() and the return to the menu
RestartGame(vals) ==
    /\ score' = 0
    /\ lastHealthBonus' = 0
    /\ lastScrambleBonus' = 0
    /\ level' = 1
    /\ targetNumber' = INITIAL_TARGET
    /\ playerHealth' = MAX_HEALTH
    /\ enemyHealth' = ENEMY_MAX_HEALTH
    /\ scramblesRemaining' = SCRAMBLES_PER_LEVEL
    /\ isScrambling' = FALSE
    /\ scrambleTimer' = 0
    /\ scrambleAnimation' = <<>>
    /\ healthBonus' = 0
    /\ damageBonus' = 0
    /\ grid' = CreateGrid(vals)
    /\ currentState' = MENU
    /\ UNCHANGED <<settings, nextTarget, enemyAttackTimer, damageBase, enemyMaxHealth,
                   selectionVars, leaderboardVars, loadVars, gamesStarted, upgradeCountVars, boardVars, sliderVars, audioVars>>

\* A faulty scrambleBoard that never uses up the allotment; the decrement of
\* scramblesRemaining and the limit of three scrambles in a level must fail
\* under it.
ScrambleBoardUncounted(js) ==
    IF currentState # PLAYING \/ isScrambling \/ scramblesRemaining <= 0
    THEN UNCHANGED vars
    ELSE /\ isScrambling' = TRUE
         /\ scrambleTimer' = 0
         /\ scrambleAnimation' = ScrambleAnimation(grid, js)
         /\ grid' = ScrambleGrid(grid, js)
         /\ UNCHANGED <<currentState, settings, targetNumber, score, lastHealthBonus,
                        lastScrambleBonus, level, playerHealth, enemyHealth, nextTarget,
                        enemyAttackTimer, healthBonus, damageBonus, damageBase,
                        enemyMaxHealth, selectionVars, scramblesRemaining, leaderboardVars,
                        loadVars, gamesStarted, upgradeCountVars, boardVars, sliderVars, audioVars>>

\* scrambleBoard, js being the draws of the Fisher-Yates loop
ScrambleBoard(js) ==
    IF currentState # PLAYING \/ isScrambling \/ scramblesRemaining <= 0
    THEN UNCHANGED vars
    ELSE /\ isScrambling' = TRUE
         /\ scrambleTimer' = 0
         /\ scramblesRemaining' = scramblesRemaining - 1
         /\ scrambleAnimation' = ScrambleAnimation(grid, js)
         /\ grid' = ScrambleGrid(grid, js)
         /\ UNCHANGED <<currentState, settings, targetNumber, score, lastHealthBonus,
                        lastScrambleBonus, level, playerHealth, enemyHealth, nextTarget,
                        enemyAttackTimer, healthBonus, damageBonus, damageBase,
                        enemyMaxHealth, selectionVars, leaderboardVars, loadVars,
                        gamesStarted, upgradeCountVars, boardVars, sliderVars, audioVars>>

\* processMatch, called by a release that has already reset isSelecting
ProcessMatch ==
    LET tiles == TilesWithValues(grid, selectionStart, selectionEnd)
        total == TotalTilesInSelection(selectionStart, selectionEnd)
    IN  /\ grid' = MatchGrid(grid, selectionStart, selectionEnd)
        /\ score' = score + ScoreEarned(tiles, total)
        /\ enemyHealth' = Max(0, enemyHealth - DamageDealt(tiles, damageBase, damageBonus))
        /\ selectedSum' = 0

(***************************************************************************)
(* The leaderboard screen: loadLeaderboard and the service it awaits       *)
(***************************************************************************)
\* The outcome of a Firestore query: it fails, or it delivers entries.
QueryOutcome(ok, entries) == [ok |-> ok, entries |-> entries]

\* getTopEntries: the entries of a query that succeeds, [] from its catch.
GetTopEntries(q) == IF q.ok THEN q.entries ELSE <<>>

\* getTopEntries catches every failure of its query: none reaches the caller.
GetTopEntriesThrows(q) == FALSE

\* isAvailable: true unless the getTopEntries(1) it awaits throws.
IsAvailable(q) == ~GetTopEntriesThrows(q)

\* loadLeaderboard up to its first await, isAvailable()
LoadLeaderboard ==
    /\ isLoadingLeaderboard' = TRUE
    /\ leaderboardLoads' = Append(leaderboardLoads, "isAvailable")
    /\ UNCHANGED <<leaderboardEntries, isLeaderboardAvailable>>

\* loadLeaderboard resumes: the isAvailable() of call i has returned, its
\* query having had outcome q.
IsAvailableReturns(i, q) ==
    /\ i \in 1 .. Len(leaderboardLoads)
    /\ leaderboardLoads[i] = "isAvailable"
    /\ isLeaderboardAvailable' = IsAvailable(q)
    /\ IF IsAvailable(q)
       THEN /\ leaderboardLoads' = [leaderboardLoads EXCEPT ![i] = "getTopEntries"]
            /\ UNCHANGED <<leaderboardEntries, isLoadingLeaderboard>>
       ELSE /\ leaderboardEntries' = <<>>
            /\ isLoadingLeaderboard' = FALSE
            /\ leaderboardLoads' =
                   SubSeq(leaderboardLoads, 1, i - 1)
                       \o SubSeq(leaderboardLoads, i + 1, Len(leaderboardLoads))
    /\ UNCHANGED <<currentState, settings, gameVars, selectionVars, scrambleVars,
                   leaderboardVars, loadVars, gamesStarted, upgradeCountVars, sliderVars, audioVars>>

\* loadLeaderboard resumes: the getTopEntries(10) of call i has returned, its
\* query having had outcome q; the finally block ends the call.
LeaderboardEntriesReturn(i, q) ==
    /\ i \in 1 .. Len(leaderboardLoads)
    /\ leaderboardLoads[i] = "getTopEntries"
    /\ leaderboardEntries' = GetTopEntries(q)
    /\ isLoadingLeaderboard' = FALSE
    /\ leaderboardLoads' =
           SubSeq(leaderboardLoads, 1, i - 1)
               \o SubSeq(leaderboardLoads, i + 1, Len(leaderboardLoads))
    /\ UNCHANGED <<currentState, settings, gameVars, selectionVars, scrambleVars,
                   leaderboardVars, loadVars, gamesStarted, upgradeCountVars,
                   isLeaderboardAvailable, sliderVars, audioVars>>

(***************************************************************************)
(* Input handlers                                                          *)
(***************************************************************************)
\* handleMenuClick
HandleMenuClick(p, vals) ==
    IF IsClickInButton(p, MENU_PLAY_BUTTON) THEN StartGame(vals)
    ELSE IF IsClickInButton(p, MENU_OPTIONS_BUTTON)
    THEN currentState' = OPTIONS
         /\ UNCHANGED <<settings, gameVars, selectionVars, scrambleVars, leaderboardVars,
                        loadVars, gamesStarted, upgradeCountVars, boardVars, sliderVars, audioVars>>
    ELSE IF IsClickInButton(p, MENU_LEADERBOARD_BUTTON)
    THEN currentState' = LEADERBOARD
         /\ LoadLeaderboard
         /\ UNCHANGED <<settings, gameVars, selectionVars, scrambleVars, leaderboardVars,
                        loadVars, gamesStarted, upgradeCountVars, sliderVars, audioVars>>
    ELSE UNCHANGED vars

\* handleGameClick
HandleGameClick(p, js) ==
    IF isScrambling THEN UNCHANGED vars
    ELSE IF scramblesRemaining > 0 /\ ~isScrambling
            /\ IsClickInButton(p, PLAYING_SCRAMBLE_BUTTON)
    THEN ScrambleBoard(js)
    ELSE IF InGrid(CellOf(p.x), CellOf(p.y))
    THEN LET c == [x |-> CellOf(p.x), y |-> CellOf(p.y)]
         IN  /\ isSelecting' = TRUE
             /\ selectionStart' = c
             /\ selectionEnd' = c
             /\ grid' = UpdateSelectionGrid(grid, c, c)
             /\ selectedSum' = UpdateSelectionSum(grid, c, c)
             /\ UNCHANGED <<currentState, settings, targetNumber, score, lastHealthBonus,
                            lastScrambleBonus, level, playerHealth, enemyHealth,
                            nextTarget, enemyAttackTimer, healthBonus, damageBonus,
                            damageBase, enemyMaxHealth, scrambleVars, leaderboardVars,
                            loadVars, gamesStarted, upgradeCountVars, boardVars, sliderVars, audioVars>>
    ELSE UNCHANGED vars

\* Math.max(0, Math.min(1, relativeX / 200)) for a pointer at pixel x, the
\* slider beginning at CANVAS_SIZE / 2 - 100; in two-hundredths.
SliderVolume(x) == Max(0, Min(200, x - (CANVAS_SIZE \div 2 - 100)))

\* A faulty difficulty button that applies the damage base at once; the
\* separation of the options from the combat state must fail under it.
SetDifficultyApplied(d) ==
    /\ settings' = [settings EXCEPT !.difficulty = d]
    /\ damageBase' = DifficultyDamageBase(d)
    /\ UNCHANGED <<currentState, grid, targetNumber, score, lastHealthBonus,
                   lastScrambleBonus, level, playerHealth, enemyHealth, nextTarget,
                   enemyAttackTimer, healthBonus, damageBonus, enemyMaxHealth,
                   selectionVars, scrambleVars, leaderboardVars, loadVars, gamesStarted,
                   upgradeCountVars, boardVars, sliderVars, audioVars>>

\* A difficulty button of handleOptionsClick: settings.difficulty = d
SetDifficulty(d) ==
    /\ settings' = [settings EXCEPT !.difficulty = d]
    /\ UNCHANGED <<currentState, gameVars, selectionVars, scrambleVars,
                   leaderboardVars, loadVars, gamesStarted, upgradeCountVars,
                   boardVars, sliderVars, audioVars>>

\* handleOptionsClick
HandleOptionsClick(p) ==
    LET setDifficulty(d) == SetDifficulty(d)
    IN  IF IsClickInSlider(p, CANVAS_SIZE \div 2, 120, 200, 20)
        THEN /\ isDraggingBGM' = TRUE
             /\ settings' = [settings EXCEPT !.bgmVolume = SliderVolume(p.x)]
             /\ bgmAudioVolume' = UpdateBGMVolume(settings')
             /\ UNCHANGED <<currentState, gameVars, selectionVars, scrambleVars,
                            leaderboardVars, loadVars, gamesStarted, upgradeCountVars,
                            boardVars, isDraggingSFX, fadeVars>>
        ELSE IF IsClickInSlider(p, CANVAS_SIZE \div 2, 180, 200, 20)
        THEN /\ isDraggingSFX' = TRUE
             /\ settings' = [settings EXCEPT !.sfxVolume = SliderVolume(p.x)]
             /\ UNCHANGED <<currentState, gameVars, selectionVars, scrambleVars,
                            leaderboardVars, loadVars, gamesStarted, upgradeCountVars,
                            boardVars, isDraggingBGM, audioVars>>
        ELSE IF IsClickInButton(p, OPTIONS_EASY_BUTTON) THEN setDifficulty("easy")
        ELSE IF IsClickInButton(p, OPTIONS_NORMAL_BUTTON) THEN setDifficulty("normal")
        ELSE IF IsClickInButton(p, OPTIONS_HARD_BUTTON) THEN setDifficulty("hard")
        ELSE IF IsClickInButton(p, OPTIONS_BACK_BUTTON)
        THEN currentState' = MENU
             /\ UNCHANGED <<settings, gameVars, selectionVars, scrambleVars,
                            leaderboardVars, loadVars, gamesStarted, upgradeCountVars, boardVars, sliderVars, audioVars>>
        ELSE UNCHANGED vars

\* A faulty handleGameOverClick whose Main Menu button opens the options; the
\* entry into Options from the menu alone must fail under it.
HandleGameOverClickToOptions(p, vals) ==
    IF IsClickInButton(p, GAME_OVER_PLAY_AGAIN_BUTTON) THEN StartGame(vals)
    ELSE IF IsClickInButton(p, GAME_OVER_MAIN_MENU_BUTTON)
    THEN currentState' = OPTIONS
         /\ UNCHANGED <<settings, gameVars, selectionVars, scrambleVars, leaderboardVars,
                        loadVars, gamesStarted, upgradeCountVars, boardVars, sliderVars, audioVars>>
    ELSE UNCHANGED vars

\* handleGameOverClick
HandleGameOverClick(p, vals) ==
    IF IsClickInButton(p, GAME_OVER_PLAY_AGAIN_BUTTON) THEN StartGame(vals)
    ELSE IF IsClickInButton(p, GAME_OVER_MAIN_MENU_BUTTON)
    THEN currentState' = MENU
         /\ UNCHANGED <<settings, gameVars, selectionVars, scrambleVars, leaderboardVars,
                        loadVars, gamesStarted, upgradeCountVars, boardVars, sliderVars, audioVars>>
    ELSE UNCHANGED vars

\* handleChooseUpgradeClick
HandleChooseUpgradeClick(p, vals) ==
    IF IsClickInButton(p, CHOOSE_UPGRADE_HEALTH_BUTTON)
    THEN NextLevel(healthBonus + HEALTH_UPGRADE_BONUS, damageBonus, vals)
    ELSE IF IsClickInButton(p, CHOOSE_UPGRADE_DAMAGE_BUTTON)
    THEN NextLevel(healthBonus, damageBonus + DAMAGE_UPGRADE_BONUS, vals)
    ELSE UNCHANGED vars

\* handleLeaderboardClick
HandleLeaderboardClick(p) ==
    IF IsClickInButton(p, LEADERBOARD_BACK_BUTTON)
    THEN currentState' = MENU
         /\ UNCHANGED <<settings, gameVars, selectionVars, scrambleVars, leaderboardVars,
                        loadVars, gamesStarted, upgradeCountVars, boardVars, sliderVars, audioVars>>
    ELSE UNCHANGED vars

\* Names are sequences of one-character strings.
UpperCase == <<"A", "B", "C", "D", "E", "F", "G", "H", "I", "J", "K", "L", "M",
               "N", "O", "P", "Q", "R", "S", "T", "U", "V", "W", "X", "Y", "Z">>
LowerCase == <<"a", "b", "c", "d", "e", "f", "g", "h", "i", "j", "k", "l", "m",
               "n", "o", "p", "q", "r", "s", "t", "u", "v", "w", "x", "y", "z">>

ToLowerChar(c) ==
    IF \E i \in 1 .. Len(UpperCase) : UpperCase[i] = c
    THEN LowerCase[CHOOSE i \in 1 .. Len(UpperCase) : UpperCase[i] = c]
    ELSE c

\* name.toLowerCase()
ToLowerCase(name) == [i \in 1 .. Len(name) |-> ToLowerChar(name[i])]

\* A faulty trim that keeps the spaces; the refusal of a blank name must fail
\* under it.
TrimNothing(name) == name

\* name.trim()
RECURSIVE TrimLeft(_)
TrimLeft(name) ==
    IF name # <<>> /\ Head(name) = " " THEN TrimLeft(Tail(name)) ELSE name

RECURSIVE TrimRight(_)
TrimRight(name) ==
    IF name # <<>> /\ name[Len(name)] = " "
    THEN TrimRight(SubSeq(name, 1, Len(name) - 1))
    ELSE name

Trim(name) == TrimRight(TrimLeft(name))

\* haystack.includes(word)
Includes(haystack, word) ==
    \E i \in 1 .. (Len(haystack) - Len(word) + 1) :
        SubSeq(haystack, i, i + Len(word) - 1) = word

ProfanityList ==
    { <<"f", "u", "c", "k">>,
      <<"s", "h", "i", "t">>,
      <<"d", "a", "m", "n">>,
      <<"b", "i", "t", "c", "h">>,
      <<"a", "s", "s", "h", "o", "l", "e">>,
      <<"b", "a", "s", "t", "a", "r", "d">>,
      <<"c", "u", "n", "t">>,
      <<"d", "i", "c", "k">>,
      <<"p", "u", "s", "s", "y">>,
      <<"c", "o", "c", "k">>,
      <<"f", "a", "g">>,
      <<"f", "a", "g", "g", "o", "t">>,
      <<"n", "i", "g", "g", "e", "r">>,
      <<"n", "i", "g", "g", "a">>,
      <<"c", "h", "i", "n", "k">>,
      <<"g", "o", "o", "k">>,
      <<"s", "p", "i", "c">>,
      <<"w", "e", "t", "b", "a", "c", "k">>,
      <<"k", "i", "k", "e">>,
      <<"h", "e", "e", "b">>,
      <<"c", "r", "a", "p">>,
      <<"p", "i", "s", "s">>,
      <<"t", "i", "t", "s">>,
      <<"b", "o", "o", "b", "s">>,
      <<"s", "l", "u", "t">>,
      <<"w", "h", "o", "r", "e">>,
      <<"c", "u", "m">>,
      <<"j", "i", "z", "z">>,
      <<"w", "a", "n", "k">>,
      <<"t", "w", "a", "t">> }

\* containsProfanity
ContainsProfanity(name) ==
    \E word \in ProfanityList : Includes(ToLowerCase(name), word)

\* submitLeaderboardName: a name that passes awaits addEntry, the state changes
\* when that call returns; any other name changes the state at once.
SubmitLeaderboardName ==
    IF Trim(leaderboardNameInput) # <<>>
       /\ ~ContainsProfanity(Trim(leaderboardNameInput))
    THEN /\ addEntryCalls' = addEntryCalls + 1
         /\ entriesWritten' = entriesWritten + 1
         /\ UNCHANGED <<currentState, settings, gameVars, selectionVars, scrambleVars,
                        pendingLeaderboardScore, leaderboardNameInput, topEntriesQueries,
                        loadVars, gamesStarted, upgradeCountVars, boardVars, sliderVars, audioVars>>
    ELSE /\ currentState' = GAME_OVER
         /\ UNCHANGED <<settings, gameVars, selectionVars, scrambleVars, leaderboardVars,
                        loadVars, gamesStarted, upgradeCountVars, boardVars, sliderVars, audioVars>>

\* skipLeaderboardName
SkipLeaderboardName ==
    /\ currentState' = GAME_OVER
    /\ UNCHANGED <<settings, gameVars, selectionVars, scrambleVars, leaderboardVars,
                   loadVars, gamesStarted, upgradeCountVars, boardVars, sliderVars, audioVars>>

\* handleLeaderboardNameInputClick (the input focus is presentation)
HandleLeaderboardNameInputClick(p) ==
    IF p.x >= 50 /\ p.x <= CANVAS_SIZE - 50 /\ p.y >= 240 /\ p.y <= 280
    THEN UNCHANGED vars
    ELSE IF IsClickInButton(p, LEADERBOARD_NAME_SUBMIT_BUTTON) THEN SubmitLeaderboardName
    ELSE IF IsClickInButton(p, LEADERBOARD_NAME_SKIP_BUTTON) THEN SkipLeaderboardName
    ELSE UNCHANGED vars

Digits == {"0", "1", "2", "3", "4", "5", "6", "7", "8", "9"}

\* /^[a-zA-Z0-9 ]$/.test(key)
IsNameCharacter(key) ==
    \/ \E i \in 1 .. Len(UpperCase) : key \in {UpperCase[i], LowerCase[i]}
    \/ key \in Digits
    \/ key = " "

\* event.key.length === 1: every other key of the keyboard has a longer name
IsSingleCharacter(key) == key \notin {"Enter", "Escape", "Backspace", "Shift", "Tab"}

\* handleLeaderboardNameInputKey
HandleLeaderboardNameInputKey(key) ==
    IF key = "Enter" THEN SubmitLeaderboardName
    ELSE IF key = "Escape" THEN SkipLeaderboardName
    ELSE IF key = "Backspace"
    THEN /\ leaderboardNameInput' =
                SubSeq(leaderboardNameInput, 1, Len(leaderboardNameInput) - 1)
         /\ UNCHANGED <<currentState, settings, gameVars, selectionVars, scrambleVars,
                        pendingLeaderboardScore, topEntriesQueries, addEntryCalls,
                        entriesWritten, loadVars, gamesStarted, upgradeCountVars, boardVars, sliderVars, audioVars>>
    ELSE IF IsSingleCharacter(key) /\ Len(leaderboardNameInput) < 10 /\ IsNameCharacter(key)
    THEN /\ leaderboardNameInput' = Append(leaderboardNameInput, key)
         /\ UNCHANGED <<currentState, settings, gameVars, selectionVars, scrambleVars,
                        pendingLeaderboardScore, topEntriesQueries, addEntryCalls,
                        entriesWritten, loadVars, gamesStarted, upgradeCountVars, boardVars, sliderVars, audioVars>>
    ELSE UNCHANGED vars

\* onKeyDown
OnKeyDown(key) ==
    IF currentState = LEADERBOARD_NAME_INPUT
    THEN HandleLeaderboardNameInputKey(key)
    ELSE UNCHANGED vars

\* onMouseDown / onTouchStart at canvas point p
OnMouseDown(p, vals, js) ==
    CASE currentState = MENU -> HandleMenuClick(p, vals)
      [] currentState = PLAYING -> HandleGameClick(p, js)
      [] currentState = OPTIONS -> HandleOptionsClick(p)
      [] currentState = GAME_OVER -> HandleGameOverClick(p, vals)
      [] currentState = CHOOSE_UPGRADE -> HandleChooseUpgradeClick(p, vals)
      [] currentState = LEADERBOARD -> HandleLeaderboardClick(p)
      [] currentState = LEADERBOARD_NAME_INPUT -> HandleLeaderboardNameInputClick(p)
      [] OTHER -> UNCHANGED vars

\* onMouseMove / onTouchMove at canvas point p
OnMouseMove(p) ==
    IF currentState = OPTIONS
    THEN IF isDraggingBGM
         THEN /\ settings' = [settings EXCEPT !.bgmVolume = SliderVolume(p.x)]
              /\ bgmAudioVolume' = UpdateBGMVolume(settings')
              /\ UNCHANGED <<currentState, gameVars, selectionVars, scrambleVars,
                             leaderboardVars, loadVars, gamesStarted, upgradeCountVars,
                             boardVars, sliderVars, fadeVars>>
         ELSE IF isDraggingSFX
         THEN /\ settings' = [settings EXCEPT !.sfxVolume = SliderVolume(p.x)]
              /\ UNCHANGED <<currentState, gameVars, selectionVars, scrambleVars,
                             leaderboardVars, loadVars, gamesStarted, upgradeCountVars,
                             boardVars, sliderVars, audioVars>>
         ELSE UNCHANGED vars
    ELSE IF currentState # PLAYING \/ ~isSelecting THEN UNCHANGED vars
    ELSE IF InGrid(CellOf(p.x), CellOf(p.y))
    THEN LET c == [x |-> CellOf(p.x), y |-> CellOf(p.y)]
         IN  /\ selectionEnd' = c
             /\ grid' = UpdateSelectionGrid(grid, selectionStart, c)
             /\ selectedSum' = UpdateSelectionSum(grid, selectionStart, c)
             /\ UNCHANGED <<currentState, settings, targetNumber, score, lastHealthBonus,
                            lastScrambleBonus, level, playerHealth, enemyHealth,
                            nextTarget, enemyAttackTimer, healthBonus, damageBonus,
                            damageBase, enemyMaxHealth, isSelecting, selectionStart,
                            scrambleVars, leaderboardVars, loadVars, gamesStarted, upgradeCountVars, boardVars, sliderVars, audioVars>>
    ELSE UNCHANGED vars

\* onMouseUp / onTouchEnd: the sliders are let go in every state
OnMouseUp ==
    /\ isDraggingBGM' = FALSE
    /\ isDraggingSFX' = FALSE
    /\ IF currentState # PLAYING \/ ~isSelecting
       THEN UNCHANGED <<currentState, settings, gameVars, selectionVars, scrambleVars,
                        leaderboardVars, loadVars, gamesStarted, upgradeCountVars,
                        boardVars, audioVars>>
       ELSE /\ isSelecting' = FALSE
            /\ IF selectedSum = targetNumber
               THEN ProcessMatch
               ELSE /\ grid' = ClearSelectionGrid(grid)
                    /\ selectedSum' = 0
                    /\ UNCHANGED <<score, enemyHealth>>
            /\ UNCHANGED <<currentState, settings, targetNumber, lastHealthBonus,
                           lastScrambleBonus, level, playerHealth, nextTarget,
                           enemyAttackTimer, healthBonus, damageBonus, damageBase,
                           enemyMaxHealth, selectionStart, selectionEnd, scrambleVars,
                           leaderboardVars, loadVars, gamesStarted, upgradeCountVars,
                           boardVars, audioVars>>

(***************************************************************************)
(* update: one frame of the game loop, deltaTime = dt                      *)
(***************************************************************************)
\* A faulty attack step that strikes once for every interval that has passed;
\* the limit of one attack per frame must fail under it.
HealthAfterEveryDueAttack(health, timer, dt) ==
    Max(0, health - ENEMY_ATTACK_DAMAGE * ((timer + dt) \div ENEMY_ATTACK_INTERVAL))

\* The player's health after the enemy attack step of a frame.
HealthAfterAttack(health, timer, dt) ==
    IF timer + dt >= ENEMY_ATTACK_INTERVAL
    THEN Max(0, health - ENEMY_ATTACK_DAMAGE)
    ELSE health

\* enemyAttackTimer after the enemy attack step of a frame.
TimerAfterAttack(timer, dt) ==
    IF timer + dt >= ENEMY_ATTACK_INTERVAL THEN 0 ELSE timer + dt

\* The lose check of update: the player is dead.
LoseCheck(health) == health <= 0

\* The win check of update: the enemy is dead.
WinCheck(health) == health <= 0

\* currentState after the win/lose checks of a frame
StateAfterChecks(lose, win) ==
    IF win THEN CHOOSE_UPGRADE ELSE IF lose THEN GAME_OVER ELSE PLAYING

\* A faulty end test that needs the timer to exceed the duration; the end of
\* the scramble on the frame that reaches the duration must fail under it.
ScrambleDoneLate(timer, dt) == timer + dt > SCRAMBLE_ANIMATION_DURATION

\* finishScrambling is reached when the accumulated timer passes the duration
ScrambleDone(timer, dt) == timer + dt >= SCRAMBLE_ANIMATION_DURATION

\* A faulty test that lets the combat run on while an upgrade is offered; the
\* rest of the simulation outside Playing must fail under it.
UpdatesCombatOnUpgrade(st) == st \in {PLAYING, CHOOSE_UPGRADE}

\* update goes past its animations only in Playing
UpdatesCombat(st) == st = PLAYING

\* The part of update that follows updateBGMVolumeForState; r is the random
\* draw of calculateNextTarget, and the sprite animation timers that update
\* advances in every state are not part of the model
UpdateGame(dt, r) ==
    IF ~UpdatesCombat(currentState) THEN UNCHANGED stateVars
    ELSE IF isScrambling
    THEN /\ IF ScrambleDone(scrambleTimer, dt)
            THEN /\ isScrambling' = FALSE
                 /\ scrambleTimer' = 0
                 /\ scrambleAnimation' = <<>>
            ELSE /\ scrambleTimer' = scrambleTimer + dt
                 /\ UNCHANGED <<isScrambling, scrambleAnimation>>
         /\ UNCHANGED <<currentState, settings, gameVars, selectionVars,
                        scramblesRemaining, leaderboardVars, loadVars, gamesStarted, upgradeCountVars, boardVars, sliderVars>>
    ELSE LET health == HealthAfterAttack(playerHealth, enemyAttackTimer, dt)
             lose == LoseCheck(health)
             win == WinCheck(enemyHealth)
             bonus == HealthBonusOf(score, health)
             scrambleBonus == ScrambleBonusOf(scramblesRemaining)
         IN  /\ enemyAttackTimer' = TimerAfterAttack(enemyAttackTimer, dt)
             /\ playerHealth' = health
             /\ topEntriesQueries' =
                    IF lose
                    THEN Append(topEntriesQueries,
                                [finalScore |-> FinalScore(score, settings.difficulty)])
                    ELSE topEntriesQueries
             /\ IF win
                THEN /\ score' = score + bonus + scrambleBonus
                     /\ lastHealthBonus' = bonus
                     /\ lastScrambleBonus' = scrambleBonus
                     /\ nextTarget' = CalculateNextTarget(level, r)
                ELSE UNCHANGED <<score, lastHealthBonus, lastScrambleBonus, nextTarget>>
             /\ currentState' = StateAfterChecks(lose, win)
             /\ UNCHANGED <<settings, grid, targetNumber, level, enemyHealth, healthBonus,
                            damageBonus, damageBase, enemyMaxHealth, selectionVars,
                            scrambleVars, pendingLeaderboardScore, leaderboardNameInput,
                            addEntryCalls, entriesWritten, loadVars, gamesStarted, upgradeCountVars, boardVars, sliderVars>>

\* update: one frame
Update(dt, r) == UpdateBGMVolumeForState /\ UpdateGame(dt, r)

(***************************************************************************)
(* Leaderboard hand-off                                                    *)
(***************************************************************************)
\* A board of n entries that all hold the score s.
Board(n, s) == [k \in 1 .. n |-> [score |-> s]]

\* topEntries[topEntries.length - 1]?.score || 0
LastScore(entries) == IF Len(entries) = 0 THEN 0 ELSE entries[Len(entries)].score

\* A faulty test that lets a tie with the last entry qualify; strictness of
\* the comparison must fail under it.
QualifiesOnTie(finalScore, entries) ==
    Len(entries) < TOP_COUNT \/ finalScore >= LastScore(entries)

Qualifies(finalScore, entries) ==
    Len(entries) < TOP_COUNT \/ finalScore > LastScore(entries)

RemoveAt(q, i) == SubSeq(q, 1, i - 1) \o SubSeq(q, i + 1, Len(q))

\* handleGameOverLeaderboard resumes: query i returns the list entries
TopEntriesArrive(i, entries) ==
    /\ i \in 1 .. Len(topEntriesQueries)
    /\ topEntriesQueries' = RemoveAt(topEntriesQueries, i)
    /\ IF Qualifies(topEntriesQueries[i].finalScore, entries)
       THEN /\ pendingLeaderboardScore' = topEntriesQueries[i].finalScore
            /\ leaderboardNameInput' = <<>>
            /\ currentState' = LEADERBOARD_NAME_INPUT
       ELSE UNCHANGED <<pendingLeaderboardScore, leaderboardNameInput, currentState>>
    /\ UNCHANGED <<settings, gameVars, selectionVars, scrambleVars, addEntryCalls,
                   entriesWritten, loadVars, gamesStarted, upgradeCountVars, boardVars, sliderVars, audioVars>>

\* A faulty continuation that forgets to leave the name input; the arrival at
\* GameOver after a submit must fail under it.
AddEntryReturnsSilently ==
    /\ addEntryCalls > 0
    /\ addEntryCalls' = addEntryCalls - 1
    /\ UNCHANGED <<currentState, settings, gameVars, selectionVars, scrambleVars,
                   pendingLeaderboardScore, leaderboardNameInput, topEntriesQueries,
                   entriesWritten, loadVars, gamesStarted, upgradeCountVars, boardVars, sliderVars, audioVars>>

\* submitLeaderboardName resumes: addEntry has returned, the write having
\* succeeded or failed (addEntry catches the failure and never throws)
AddEntryReturns ==
    /\ addEntryCalls > 0
    /\ addEntryCalls' = addEntryCalls - 1
    /\ currentState' = GAME_OVER
    /\ UNCHANGED <<settings, gameVars, selectionVars, scrambleVars,
                   pendingLeaderboardScore, leaderboardNameInput, topEntriesQueries,
                   entriesWritten, loadVars, gamesStarted, upgradeCountVars, boardVars, sliderVars, audioVars>>

(***************************************************************************)
(* Asset loading                                                           *)
(***************************************************************************)
AssetGroups == {"playerSprite", "attackSprites", "enemySprite", "enemyAttackSprite",
                "runningSprite", "avatarSprites", "soundEffects", "bgm"}

\* The element events a group counts before it marks itself loaded.
TotalElements(g) ==
    CASE g = "attackSprites" -> 2
      [] g = "avatarSprites" -> 4
      [] g = "soundEffects" -> 11
      [] OTHER -> 1

\* The groups whose loader arms a 5000 ms timeout.
HasTimeout(g) == g \notin {"soundEffects", "bgm"}

\* A faulty progress that counts the groups still pending; the growth of the
\* progress must fail under it.
LoadingProgressOfPending(loaded) ==
    (Cardinality({g \in AssetGroups : ~loaded[g]}) * 1000) \div Cardinality(AssetGroups)

\* updateLoadingProgress, in tenths of a percent
LoadingProgress(loaded) ==
    (Cardinality({g \in AssetGroups : loaded[g]}) * 1000) \div Cardinality(AssetGroups)

\* The .then of loadAllAssets runs when the last of the group promises resolves.
StateAfterResolve(resolvedBefore, resolvedAfter) ==
    IF (\A g \in AssetGroups : resolvedAfter[g]) /\ ~(\A g \in AssetGroups : resolvedBefore[g])
    THEN MENU
    ELSE currentState

\* The group is marked loaded and its promise resolves.
MarkLoaded(g) ==
    /\ loadedAssets' = [loadedAssets EXCEPT ![g] = TRUE]
    /\ loadingProgress' = LoadingProgress([loadedAssets EXCEPT ![g] = TRUE])
    /\ promiseResolved' = [promiseResolved EXCEPT ![g] = TRUE]
    /\ currentState' = StateAfterResolve(promiseResolved, [promiseResolved EXCEPT ![g] = TRUE])

\* An element of group g reports (load, canplaythrough or error: the loaders
\* treat them alike).
ElementReports(g) ==
    /\ loadedCount[g] < TotalElements(g)
    /\ loadedCount' = [loadedCount EXCEPT ![g] = @ + 1]
    /\ IF loadedCount[g] + 1 = TotalElements(g)
       THEN /\ MarkLoaded(g)
            /\ timeoutState' = [timeoutState EXCEPT ![g] = IF @ = "armed" THEN "cleared" ELSE @]
       ELSE UNCHANGED <<loadedAssets, loadingProgress, promiseResolved, currentState,
                        timeoutState>>
    /\ UNCHANGED <<settings, gameVars, selectionVars, scrambleVars, leaderboardVars,
                   gamesStarted, upgradeCountVars, boardVars, sliderVars, audioVars>>

\* The 5000 ms timeout of group g fires.
TimeoutFires(g) ==
    /\ timeoutState[g] = "armed"
    /\ timeoutState' = [timeoutState EXCEPT ![g] = "fired"]
    /\ MarkLoaded(g)
    /\ UNCHANGED <<settings, gameVars, selectionVars, scrambleVars, leaderboardVars,
                   loadedCount, gamesStarted, upgradeCountVars, boardVars, sliderVars, audioVars>>

(***************************************************************************)
(* Initial states                                                          *)
(***************************************************************************)
\* The fields as the constructor and initializeGame leave them.
InitFields ==
    /\ settings = [difficulty |-> "normal", muted |-> FALSE,
                   bgmVolume |-> BGM_VOLUME, sfxVolume |-> SFX_VOLUME]
    /\ grid = CreateGrid(DrawnValues(<<>>))
    /\ targetNumber = INITIAL_TARGET
    /\ score = 0
    /\ lastHealthBonus = 0
    /\ lastScrambleBonus = 0
    /\ level = 1
    /\ playerHealth = MAX_HEALTH
    /\ enemyHealth = ENEMY_MAX_HEALTH
    /\ nextTarget = 0
    /\ enemyAttackTimer = 0
    /\ healthBonus = 0
    /\ damageBonus = 0
    /\ damageBase = NORMAL_DAMAGE_BASE
    /\ enemyMaxHealth = ENEMY_MAX_HEALTH
    /\ isSelecting = FALSE
    /\ selectionStart = [x |-> 0, y |-> 0]
    /\ selectionEnd = [x |-> 0, y |-> 0]
    /\ selectedSum = 0
    /\ scramblesRemaining = SCRAMBLES_PER_LEVEL
    /\ isScrambling = FALSE
    /\ scrambleTimer = 0
    /\ scrambleAnimation = <<>>
    /\ pendingLeaderboardScore = 0
    /\ leaderboardNameInput = <<>>
    /\ topEntriesQueries = <<>>
    /\ addEntryCalls = 0
    /\ entriesWritten = 0
    /\ gamesStarted = 0
    /\ damageUpgradeCount = 0
    /\ healthUpgradeCount = 0
    /\ leaderboardEntries = <<>>
    /\ isLoadingLeaderboard = FALSE
    /\ isLeaderboardAvailable = TRUE
    /\ leaderboardLoads = <<>>
    /\ isDraggingBGM = FALSE
    /\ isDraggingSFX = FALSE
    /\ previousState = LOADING
    /\ bgmFadeInProgress = FALSE
    /\ bgmFadeOutProgress = FALSE
    /\ bgmFadeTarget = 0
    /\ bgmFadeStartVolume = 0
    /\ bgmFadeProgress = 0
    /\ bgmAudioVolume = AUDIO_DEFAULT_VOLUME

\* After ngOnInit: loading has begun, nothing has reported.
InitLoading ==
    /\ InitFields
    /\ currentState = LOADING
    /\ loadedAssets = [g \in AssetGroups |-> FALSE]
    /\ loadingProgress = 0
    /\ loadedCount = [g \in AssetGroups |-> 0]
    /\ timeoutState = [g \in AssetGroups |-> IF HasTimeout(g) THEN "armed" ELSE "none"]
    /\ promiseResolved = [g \in AssetGroups |-> FALSE]

\* Loading has finished with every element reported: the menu is shown.
InitMenu ==
    /\ InitFields
    /\ currentState = MENU
    /\ loadedAssets = [g \in AssetGroups |-> TRUE]
    /\ loadingProgress = 1000
    /\ loadedCount = [g \in AssetGroups |-> TotalElements(g)]
    /\ timeoutState = [g \in AssetGroups |-> IF HasTimeout(g) THEN "cleared" ELSE "none"]
    /\ promiseResolved = [g \in AssetGroups |-> TRUE]

(***************************************************************************)
(* The game from the menu: inputs and specification                        *)
(***************************************************************************)
\* Canvas points of the clicks that are explored in each state.
ClickPoints(st) ==
    CASE st = MENU -> {Centre(MENU_PLAY_BUTTON), Centre(MENU_OPTIONS_BUTTON)}
      [] st = PLAYING -> {CellPoint(0, 0)}
      [] st = OPTIONS -> {Centre(OPTIONS_EASY_BUTTON), Centre(OPTIONS_NORMAL_BUTTON),
                          Centre(OPTIONS_HARD_BUTTON), Centre(OPTIONS_BACK_BUTTON)}
      [] st = GAME_OVER -> {Centre(GAME_OVER_PLAY_AGAIN_BUTTON),
                            Centre(GAME_OVER_MAIN_MENU_BUTTON)}
      [] st = CHOOSE_UPGRADE -> {Centre(CHOOSE_UPGRADE_HEALTH_BUTTON),
                                 Centre(CHOOSE_UPGRADE_DAMAGE_BUTTON)}
      [] st = LEADERBOARD -> {Centre(LEADERBOARD_BACK_BUTTON)}
      [] st = LEADERBOARD_NAME_INPUT -> {Centre(LEADERBOARD_NAME_SUBMIT_BUTTON),
                                         Centre(LEADERBOARD_NAME_SKIP_BUTTON)}
      [] OTHER -> {}

\* Canvas points of the pointer moves that are explored: the right end of the
\* first rows, so that a drag from cell (0, 0) covers whole rows.
MovePoints == {CellPoint(GRID_SIZE - 1, r) : r \in 0 .. 4}

\* Frame times that are explored: every frame brings an enemy attack.
FrameTimes == {ENEMY_ATTACK_INTERVAL}

\* Outcomes of createGrid's draws that are explored.
GridDraws == {DrawnValues(<<>>)}

\* Lists returned by getTopEntries that are explored: none (also what a
\* failed query returns), a full board, a board one entry short of full, and
\* a full board whose last entry is lower than the others.
TopEntriesLists ==
    {Board(0, 0), Board(TOP_COUNT, 200), Board(TOP_COUNT - 1, 500),
     Board(TOP_COUNT - 1, 500) \o Board(1, 100)}

NonZeroCount == Len(OriginalCells(grid))

MouseDown ==
    \E p \in ClickPoints(currentState) :
        \E vals \in GridDraws :
            /\ OnMouseDown(p, vals, <<>>)
            /\ gamesStarted' <= MaxGames
            /\ level' <= MaxLevel

MouseMove == \E p \in MovePoints : OnMouseMove(p)

MouseUp == OnMouseUp

Tick ==
    \E dt \in FrameTimes :
        \E r \in TARGET_RANDOM_MIN .. TARGET_RANDOM_MAX : Update(dt, r)

TopEntriesReturn ==
    \E i \in 1 .. Len(topEntriesQueries) :
        \E entries \in TopEntriesLists : TopEntriesArrive(i, entries)

Restart == \E vals \in GridDraws : RestartGame(vals)

Next == MouseDown \/ MouseMove \/ MouseUp \/ Tick \/ TopEntriesReturn \/ Restart

Spec == InitMenu /\ [][Next]_vars

(***************************************************************************)
(* Loading, from construction                                              *)
(***************************************************************************)
ElementReport == \E g \in AssetGroups : ElementReports(g)

TimeoutFire == \E g \in AssetGroups : TimeoutFires(g)

LoadNext == ElementReport \/ TimeoutFire

\* An armed timer fires; nothing obliges an image or a sound to report.
LoadSpec == InitLoading /\ [][LoadNext]_vars /\ WF_vars(TimeoutFire)

(***************************************************************************)
(* Loading, with the component's public commands                           *)
(***************************************************************************)
\* toggleMute
ToggleMute ==
    /\ settings' = [settings EXCEPT !.muted = ~settings.muted]
    /\ bgmAudioVolume' = UpdateBGMVolume(settings')
    /\ UNCHANGED <<currentState, gameVars, selectionVars, scrambleVars, leaderboardVars,
                   loadVars, gamesStarted, upgradeCountVars, boardVars, sliderVars, fadeVars>>

\* scrambleBoard called from outside the canvas handlers.
ScrambleCommand == \E js \in Draws(NonZeroCount, 1) : ScrambleBoard(js)

\* The sounds report one by one; the sprites are left to their timeouts.
SoundReport == \E g \in {g \in AssetGroups : ~HasTimeout(g)} : ElementReports(g)

CommandNext == SoundReport \/ TimeoutFire \/ Restart \/ ToggleMute \/ ScrambleCommand

CommandSpec == InitLoading /\ [][CommandNext]_vars

(***************************************************************************)
(* A level in play                                                         *)
(***************************************************************************)
\* The state in which startGame leaves a freshly loaded game whose difficulty
\* was set to d in the options and whose grid drew vals.
StartedGame(d, vals) ==
    /\ settings = [difficulty |-> d, muted |-> FALSE,
                   bgmVolume |-> BGM_VOLUME, sfxVolume |-> SFX_VOLUME]
    /\ grid = CreateGrid(vals)
    /\ targetNumber = INITIAL_TARGET
    /\ score = 0
    /\ lastHealthBonus = 0
    /\ lastScrambleBonus = 0
    /\ level = 1
    /\ playerHealth = DifficultyPlayerHealth(d, 0)
    /\ enemyHealth = DifficultyEnemyMaxHealth(d)
    /\ nextTarget = 0
    /\ enemyAttackTimer = 0
    /\ healthBonus = 0
    /\ damageBonus = 0
    /\ damageBase = DifficultyDamageBase(d)
    /\ enemyMaxHealth = DifficultyEnemyMaxHealth(d)
    /\ isSelecting = FALSE
    /\ selectionStart = [x |-> 0, y |-> 0]
    /\ selectionEnd = [x |-> 0, y |-> 0]
    /\ selectedSum = 0
    /\ scramblesRemaining = SCRAMBLES_PER_LEVEL
    /\ isScrambling = FALSE
    /\ scrambleTimer = 0
    /\ scrambleAnimation = <<>>
    /\ pendingLeaderboardScore = 0
    /\ leaderboardNameInput = <<>>
    /\ topEntriesQueries = <<>>
    /\ addEntryCalls = 0
    /\ entriesWritten = 0
    /\ gamesStarted = 1
    /\ damageUpgradeCount = 0
    /\ healthUpgradeCount = 0
    /\ leaderboardEntries = <<>>
    /\ isLoadingLeaderboard = FALSE
    /\ isLeaderboardAvailable = TRUE
    /\ leaderboardLoads = <<>>
    /\ isDraggingBGM = FALSE
    /\ isDraggingSFX = FALSE
    /\ previousState = MENU
    /\ bgmFadeInProgress = FALSE
    /\ bgmFadeOutProgress = FALSE
    /\ bgmFadeTarget = 0
    /\ bgmFadeStartVolume = 0
    /\ bgmFadeProgress = 0
    /\ bgmAudioVolume = BGM_VOLUME
    /\ currentState = PLAYING
    /\ loadedAssets = [g \in AssetGroups |-> TRUE]
    /\ loadingProgress = 1000
    /\ loadedCount = [g \in AssetGroups |-> TotalElements(g)]
    /\ timeoutState = [g \in AssetGroups |-> IF HasTimeout(g) THEN "cleared" ELSE "none"]
    /\ promiseResolved = [g \in AssetGroups |-> TRUE]

\* A press on the scramble button, with every outcome of the explored draws.
ScrambleClick ==
    \E js \in Draws(NonZeroCount, ShuffleWindow) :
        OnMouseDown(Centre(PLAYING_SCRAMBLE_BUTTON), DrawnValues(<<>>), js)

\* A press on cell (0, 0).
CellPress == OnMouseDown(CellPoint(0, 0), DrawnValues(<<>>), <<>>)

(***************************************************************************)
(* Scrambles and selections on grids whose first cells differ              *)
(***************************************************************************)
ScrambleGridDraws == {DrawnValues(head) : head \in [1 .. 2 -> {1, 2}]}

InitScramble == \E vals \in ScrambleGridDraws : StartedGame("normal", vals)

\* A drag down the first column.
ColumnDrag == \E r \in {8, 9} : OnMouseMove(CellPoint(0, r))

ScrambleNext == ScrambleClick \/ CellPress \/ ColumnDrag \/ MouseUp \/ Tick

ScrambleSpec == InitScramble /\ [][ScrambleNext]_vars

(***************************************************************************)
(* Frames of one second                                                    *)
(***************************************************************************)
\* Frame times: one second, and a frame so long that two attack intervals
\* have passed.
SecondFrames == {1000, 2 * ENEMY_ATTACK_INTERVAL + 1000}

InitTick == StartedGame("hard", DrawnValues(<<>>))

RowHasTile(g, y) == \E x \in Coord : g[y][x].value # 0

FirstRowWithTiles(g) ==
    IF \E y \in Coord : RowHasTile(g, y)
    THEN CHOOSE y \in Coord : RowHasTile(g, y) /\ \A z \in 0 .. (y - 1) : ~RowHasTile(g, z)
    ELSE 0

\* A drag to the right end of the first row that still has a tile.
RowDrag == OnMouseMove(CellPoint(GRID_SIZE - 1, FirstRowWithTiles(grid)))

\* A press on the scramble button whose every draw is j = i.
PlainScrambleClick ==
    \E js \in Draws(NonZeroCount, 1) :
        OnMouseDown(Centre(PLAYING_SCRAMBLE_BUTTON), DrawnValues(<<>>), js)

SecondTick ==
    \E dt \in SecondFrames :
        \E r \in TARGET_RANDOM_MIN .. TARGET_RANDOM_MAX : Update(dt, r)

TickNext == PlainScrambleClick \/ CellPress \/ RowDrag \/ MouseUp \/ SecondTick

TickSpec == InitTick /\ [][TickNext]_vars

(***************************************************************************)
(* A campaign: levels, upgrades, defeat and the next game                  *)
(***************************************************************************)
CampaignGames == 2       \* startGame calls explored, the first included
CampaignLevels == 2      \* levels explored in a game

\* Frame times: half an attack interval, so that the attack timer is seen
\* under way.
HalfFrames == {ENEMY_ATTACK_INTERVAL \div 2}

InitCampaign == StartedGame("hard", DrawnValues(<<>>))

\* The play that is explored ends with the start of the last game.
InPlay == gamesStarted < CampaignGames

\* Matches and scrambles are explored below the last level, which is left to
\* the enemy.
CampaignSelect == InPlay /\ level < CampaignLevels /\ (CellPress \/ RowDrag \/ MouseUp)

CampaignScramble == InPlay /\ level < CampaignLevels /\ PlainScrambleClick

HalfTick ==
    /\ InPlay
    /\ \E dt \in HalfFrames :
           \E r \in TARGET_RANDOM_MIN .. TARGET_RANDOM_MAX : Update(dt, r)

\* A click on either upgrade button.
UpgradeClick ==
    /\ currentState = CHOOSE_UPGRADE
    /\ \E p \in ClickPoints(CHOOSE_UPGRADE) : OnMouseDown(p, DrawnValues(<<>>), <<>>)
    /\ level' <= CampaignLevels

\* A click on Play Again or Main Menu after a defeat, or on Play in the menu.
StartClick ==
    /\ currentState \in {GAME_OVER, MENU}
    /\ \E p \in {Centre(GAME_OVER_PLAY_AGAIN_BUTTON), Centre(GAME_OVER_MAIN_MENU_BUTTON),
                  Centre(MENU_PLAY_BUTTON)} :
           OnMouseDown(p, DrawnValues(<<>>), <<>>)
    /\ gamesStarted' <= CampaignGames

\* restartGame called in the middle of a game.
CampaignRestart == InPlay /\ currentState = PLAYING /\ Restart

CampaignNext ==
    CampaignSelect \/ CampaignScramble \/ HalfTick \/ UpgradeClick \/ StartClick
        \/ CampaignRestart

CampaignSpec == InitCampaign /\ [][CampaignNext]_vars

(***************************************************************************)
(* The leaderboard screen, from the menu                                   *)
(***************************************************************************)
MaxLoads == 2            \* loadLeaderboard calls in flight at a time

\* Outcomes of a leaderboard query that are explored: it fails, it finds no
\* entry, it finds two.
QueryOutcomes ==
    {QueryOutcome(FALSE, <<>>), QueryOutcome(TRUE, Board(0, 0)), QueryOutcome(TRUE, Board(2, 200))}

BoardClickPoints(st) ==
    CASE st = MENU -> {Centre(MENU_LEADERBOARD_BUTTON), Centre(MENU_OPTIONS_BUTTON)}
      [] st = LEADERBOARD -> {Centre(LEADERBOARD_BACK_BUTTON)}
      [] st = OPTIONS -> {Centre(OPTIONS_EASY_BUTTON), Centre(OPTIONS_HARD_BUTTON),
                          Centre(OPTIONS_BACK_BUTTON)}
      [] OTHER -> {}

BoardClick ==
    /\ \E p \in BoardClickPoints(currentState) : OnMouseDown(p, DrawnValues(<<>>), <<>>)
    /\ Len(leaderboardLoads') <= MaxLoads

IsAvailableReturn ==
    \E i \in 1 .. Len(leaderboardLoads) : \E q \in QueryOutcomes : IsAvailableReturns(i, q)

EntriesReturn ==
    \E i \in 1 .. Len(leaderboardLoads) :
        \E q \in QueryOutcomes : LeaderboardEntriesReturn(i, q)

BoardNext == BoardClick \/ IsAvailableReturn \/ EntriesReturn

BoardSpec == InitMenu /\ [][BoardNext]_vars

(***************************************************************************)
(* Defeat and the name for the leaderboard                                 *)
(***************************************************************************)
MaxNameLen == 4          \* characters typed into the name
MaxEntries == 2          \* addEntry calls made

\* Keys that are explored: letters that spell a filtered word in mixed case,
\* the space, a character the input refuses, and the three control keys.
NameKeys == {"c", "U", "m", " ", "!", "Backspace", "Enter", "Escape"}

InitName == StartedGame("hard", DrawnValues(<<>>))

KeyDown ==
    /\ \E key \in NameKeys : OnKeyDown(key)
    /\ Len(leaderboardNameInput') <= MaxNameLen
    /\ entriesWritten' <= MaxEntries

NameClick ==
    /\ currentState = LEADERBOARD_NAME_INPUT
    /\ \E p \in ClickPoints(LEADERBOARD_NAME_INPUT) : OnMouseDown(p, DrawnValues(<<>>), <<>>)
    /\ entriesWritten' <= MaxEntries

NameNext == Tick \/ TopEntriesReturn \/ KeyDown \/ NameClick \/ AddEntryReturns

\* An addEntry call that is awaited returns.
NameSpec == InitName /\ [][NameNext]_vars /\ WF_vars(AddEntryReturns)

(***************************************************************************)
(* The name input, with a further game after it                            *)
(***************************************************************************)
AgainGames == 2          \* startGame calls explored, the first included

\* A click on Play Again after the defeat.
AgainClick ==
    /\ currentState = GAME_OVER
    /\ OnMouseDown(Centre(GAME_OVER_PLAY_AGAIN_BUTTON), DrawnValues(<<>>), <<>>)
    /\ gamesStarted' <= AgainGames

AgainNext ==
    Tick \/ TopEntriesReturn \/ KeyDown \/ NameClick \/ AddEntryReturns \/ AgainClick

AgainSpec == InitName /\ [][AgainNext]_vars

(***************************************************************************)
(* Levels won one after another, on each difficulty                        *)
(***************************************************************************)
UpgradeLevels == 3       \* levels explored in a game
UpgradeGames == 2        \* startGame calls explored, the first included

InitUpgrade == \E d \in Difficulty : StartedGame(d, DrawnValues(<<>>))

\* A drag from the pressed cell down column 5 or 9, to the first cell that
\* brings the sum of the selection to the target.
TargetDrag ==
    /\ level < UpgradeLevels
    /\ \E x \in {5, GRID_SIZE - 1} : \E y \in Coord :
           /\ OnMouseMove(CellPoint(x, y))
           /\ selectedSum' = targetNumber
           /\ \A z \in 0 .. (y - 1) :
                  UpdateSelectionSum(grid, selectionStart, [x |-> x, y |-> z]) # targetNumber

UpgradeSelect == level < UpgradeLevels /\ currentState = PLAYING /\ (CellPress \/ MouseUp)

\* A click on either upgrade button.
UpgradeChoice ==
    /\ currentState = CHOOSE_UPGRADE
    /\ \E p \in ClickPoints(CHOOSE_UPGRADE) : OnMouseDown(p, DrawnValues(<<>>), <<>>)
    /\ level' <= UpgradeLevels

\* Frames of three seconds, for as long as the enemy's attack is not yet due:
\* the levels that are explored are won before the enemy strikes.
QuickFrames == {3000}

QuickTick ==
    \E dt \in QuickFrames :
        /\ enemyAttackTimer + dt < ENEMY_ATTACK_INTERVAL
        /\ \E r \in TARGET_RANDOM_MIN .. TARGET_RANDOM_MAX : Update(dt, r)

\* restartGame called while an upgrade is offered.
UpgradeRestart == currentState = CHOOSE_UPGRADE /\ gamesStarted < UpgradeGames /\ Restart

\* A click on Play in the menu.
MenuPlay ==
    /\ currentState = MENU
    /\ OnMouseDown(Centre(MENU_PLAY_BUTTON), DrawnValues(<<>>), <<>>)
    /\ gamesStarted' <= UpgradeGames

UpgradeNext ==
    UpgradeSelect \/ TargetDrag \/ QuickTick \/ UpgradeChoice \/ UpgradeRestart \/ MenuPlay

UpgradeSpec == InitUpgrade /\ [][UpgradeNext]_vars

(***************************************************************************)
(* Runs on a difficulty chosen in the options                              *)
(***************************************************************************)
RunGames == 2            \* startGame calls explored
RunLevels == 2           \* levels explored in a game

\* A click on Play or Options in the menu, or on a button of the game over
\* screen.
RunMenuClick ==
    /\ currentState \in {MENU, GAME_OVER}
    /\ \E p \in ClickPoints(currentState) : OnMouseDown(p, DrawnValues(<<>>), <<>>)
    /\ gamesStarted' <= RunGames

\* A click on a difficulty button or on Back in the options.
RunOptionsClick ==
    /\ currentState = OPTIONS
    /\ \E p \in ClickPoints(OPTIONS) : OnMouseDown(p, DrawnValues(<<>>), <<>>)

\* The play that is explored ends with the start of the last game.
InRun == gamesStarted < RunGames

\* Below the last level the player presses, drags to the target and releases.
RunSelect ==
    InRun /\ level < RunLevels /\ currentState = PLAYING /\ (CellPress \/ MouseUp)

RunDrag == InRun /\ level < RunLevels /\ TargetDrag

RunChoice == InRun /\ UpgradeChoice /\ level' <= RunLevels

\* Below the last level the frames stay short of the enemy's attack; the last
\* level is left to the enemy, every frame bringing an attack.
RunTick == InRun /\ IF level < RunLevels /\ currentState = PLAYING THEN QuickTick ELSE Tick

\* restartGame called in the middle of a level.
RunRestart == InRun /\ currentState = PLAYING /\ Restart

\* The list asked for at the defeat arrives while the game over screen is up.
RunQueryReturn == currentState = GAME_OVER /\ TopEntriesReturn

\* A click on Submit or Skip in the name input.
RunNameClick ==
    /\ currentState = LEADERBOARD_NAME_INPUT
    /\ \E p \in ClickPoints(LEADERBOARD_NAME_INPUT) : OnMouseDown(p, DrawnValues(<<>>), <<>>)

RunNext ==
    RunMenuClick \/ RunOptionsClick \/ RunSelect \/ RunDrag \/ RunChoice \/ RunTick
        \/ RunRestart \/ RunQueryReturn \/ RunNameClick

RunSpec == InitMenu /\ [][RunNext]_vars

(***************************************************************************)
(* The pointer inside and outside the grid                                 *)
(***************************************************************************)
\* Canvas points outside the grid and off the scramble button: left of,
\* right of, above and below the grid, between the grid and the button,
\* beside the button and below it.
OutsidePoints ==
    {[x |-> -1, y |-> 20], [x |-> CANVAS_SIZE, y |-> 20], [x |-> 20, y |-> -1],
     [x |-> 20, y |-> CANVAS_SIZE], [x |-> 200, y |-> 405], [x |-> 20, y |-> 430],
     [x |-> 200, y |-> 470]}

\* Cells that are pressed and dragged to: corners of the grid and cells of
\* the first rows.
PointerCells ==
    {CellPoint(0, 0), CellPoint(3, 0), CellPoint(2, 1), CellPoint(0, 2),
     CellPoint(GRID_SIZE - 1, GRID_SIZE - 1)}

\* The first row draws 1, 2, 3, 4 and 5.
InitPointer == StartedGame("normal", DrawnValues(<<1, 2, 3, 4, 5>>))

PointerDown ==
    \E p \in OutsidePoints \cup PointerCells :
        OnMouseDown(p, DrawnValues(<<>>), <<>>)

PointerMove == \E p \in OutsidePoints \cup PointerCells : OnMouseMove(p)

PointerNext == PointerDown \/ PointerMove \/ MouseUp \/ PlainScrambleClick \/ Tick

PointerSpec == InitPointer /\ [][PointerNext]_vars

(***************************************************************************)
(* The options, before and after a game                                    *)
(***************************************************************************)
OptionsGames == 1        \* startGame calls explored

\* Canvas points pressed and dragged to in the options: on each slider, a
\* point inside and its right end; the difficulty buttons and the back
\* button; a point beside a slider.
OptionsPoints ==
    {[x |-> x, y |-> y] : x \in {230, 300}, y \in {120, 180}}
        \cup ClickPoints(OPTIONS) \cup {[x |-> 20, y |-> 120]}

OptionsDown ==
    /\ currentState = OPTIONS
    /\ \E p \in OptionsPoints : OnMouseDown(p, DrawnValues(<<>>), <<>>)

OptionsMove ==
    /\ currentState = OPTIONS
    /\ \E p \in OptionsPoints : OnMouseMove(p)

\* A click on a button of the menu or of the game over screen.
OutsideOptionsClick ==
    /\ currentState \in {MENU, GAME_OVER}
    /\ \E p \in ClickPoints(currentState) : OnMouseDown(p, DrawnValues(<<>>), <<>>)
    /\ gamesStarted' <= OptionsGames

OptionsNext ==
    OptionsDown \/ OptionsMove \/ MouseUp \/ OutsideOptionsClick \/ CellPress \/ RowDrag
        \/ Tick

OptionsSpec == InitMenu /\ [][OptionsNext]_vars

(***************************************************************************)
(* Properties                                                              *)
(***************************************************************************)
Cells == Coord \X Coord            \* <<x, y>>

\* The cells of the normalized rectangle of the current selection.
SelectedCells ==
    {c \in Cells : InRect(RectOf(selectionStart, selectionEnd), c[1], c[2])}

\* Number of cells of cs that hold value v in grid g.
Holding(g, cs, v) == Cardinality({c \in cs : g[c[2]][c[1]].value = v})

\* The sum of the values the selected cells hold now.
CurrentSum ==
    LET count == [v \in CELL_VALUE_MIN .. CELL_VALUE_MAX |-> Holding(grid, SelectedCells, v)]
    IN  1 * count[1] + 2 * count[2] + 3 * count[3] + 4 * count[4] + 5 * count[5]
        + 6 * count[6] + 7 * count[7] + 8 * count[8] + 9 * count[9]

\* The step is a release of the selection in Playing.
Release == currentState = PLAYING /\ isSelecting /\ ~isSelecting'

\* The step resolves a match: score is awarded.
MatchResolved == score' > score

\* How often each non-zero value occurs in grid g.
NonZeroValues(g) == [v \in CELL_VALUE_MIN .. CELL_VALUE_MAX |-> Holding(g, Cells, v)]

\* C1: in every reachable state 0 <= playerHealth <= base health of the selected
\* difficulty + healthBonus, and 0 <= enemyHealth <= enemyMaxHealth.
C1_HealthWithinMaximum ==
    /\ 0 <= playerHealth
    /\ playerHealth <= BaseHealth(settings.difficulty) + healthBonus
    /\ 0 <= enemyHealth
    /\ enemyHealth <= enemyMaxHealth

\* C2: from Loading the game eventually shows the menu, timers being delivered
\* fairly, whichever asset groups never report.
C2_LoadingReachesMenu == <>(currentState = MENU)

\* C3: a release in Playing whose rectangle sums to targetNumber clears every
\* cell of the rectangle, leaves the other cells' values alone, adds
\* tilesWithValue * 10 + emptyTiles * 1 to score, and takes
\* round(tilesWithValue * (damageBase + damageBonus)) from enemyHealth, down to 0.
C3_MatchingReleaseResolves ==
    [][(Release /\ CurrentSum = targetNumber) =>
        LET tiles == Cardinality(SelectedCells) - Holding(grid, SelectedCells, 0)
            empty == Holding(grid, SelectedCells, 0)
        IN  /\ \A c \in SelectedCells : grid'[c[2]][c[1]].value = 0
            /\ \A c \in Cells \ SelectedCells :
                   grid'[c[2]][c[1]].value = grid[c[2]][c[1]].value
            /\ score' = score + tiles * POINTS_PER_TILE + empty * EMPTY_TILE_POINTS
            /\ enemyHealth' =
                   Max(0, enemyHealth - Round(tiles * (10 * damageBase + damageBonus), 10))
      ]_vars

\* C4: a release resolves a match only if the values the selected cells hold at
\* the moment of the release sum to targetNumber.
C4_MatchOnlyOnCurrentSum ==
    [][(Release /\ MatchResolved) => CurrentSum = targetNumber]_vars

\* C5: a scramble leaves the number of tiles of each value unchanged, whatever
\* the permutation drawn and however many scrambles came before.
C5_ScramblePreservesValues ==
    [][(~isScrambling /\ isScrambling') => NonZeroValues(grid') = NonZeroValues(grid)]_vars

\* A second scramble in a row has moved tiles of different values.
C5_Witness ==
    /\ isScrambling
    /\ scramblesRemaining = SCRAMBLES_PER_LEVEL - 2
    /\ \E k \in 1 .. Len(scrambleAnimation) :
           scrambleAnimation[k].oldPos # scrambleAnimation[k].newPos
    /\ grid[0][0].value # grid[0][1].value

\* The step is a frame of the game loop with frame time dt.
Frame(dt) == \E r \in TARGET_RANDOM_MIN .. TARGET_RANDOM_MAX : Update(dt, r)

\* C6: a frame in Playing that finds enemyHealth <= 0 adds the health bonus and
\* the scramble bonus to score, stores them, computes nextTarget and enters
\* ChooseUpgrade; frames in ChooseUpgrade leave all four unchanged.
C6_WinAppliedOnce ==
    [][\A dt \in FrameTimes : Frame(dt) =>
        /\ (currentState = PLAYING /\ ~isScrambling /\ enemyHealth <= 0) =>
              /\ currentState' = CHOOSE_UPGRADE
              /\ lastScrambleBonus' = scramblesRemaining * SCRAMBLE_BONUS_POINTS
              /\ lastHealthBonus' = HealthBonusOf(score, playerHealth')
              /\ score' = score + lastHealthBonus' + lastScrambleBonus'
              /\ nextTarget' \in {TARGET_BASE + (level + 1) + r :
                                    r \in TARGET_RANDOM_MIN .. TARGET_RANDOM_MAX}
        /\ currentState = CHOOSE_UPGRADE =>
              UNCHANGED <<score, lastHealthBonus, lastScrambleBonus, nextTarget>>
      ]_vars

\* A level has been won with both bonuses awarded.
C6_Witness ==
    /\ currentState = CHOOSE_UPGRADE
    /\ lastHealthBonus > 0
    /\ lastScrambleBonus = SCRAMBLES_PER_LEVEL * SCRAMBLE_BONUS_POINTS
    /\ nextTarget > TARGET_BASE

\* C7: a frame whose lose check finds playerHealth <= 0 ends in GameOver, and no
\* frame both enters GameOver (starting the leaderboard query) and ends in
\* ChooseUpgrade.
C7_LoseEndsInGameOver ==
    [][\A dt \in FrameTimes :
        (Frame(dt) /\ currentState = PLAYING /\ ~isScrambling) =>
            /\ playerHealth' <= 0 => currentState' = GAME_OVER
            /\ ~(/\ Len(topEntriesQueries') > Len(topEntriesQueries)
                 /\ currentState' = CHOOSE_UPGRADE)
      ]_vars

\* C8: a frame in Playing outside a scramble adds dt to enemyAttackTimer; at
\* 8000 ms or more the timer returns to 0 and playerHealth loses 8, down to 0,
\* once; below that playerHealth is unchanged.
C8_OneAttackPerFrame ==
    [][\A dt \in SecondFrames :
        (Frame(dt) /\ currentState = PLAYING /\ ~isScrambling) =>
            IF enemyAttackTimer + dt >= ENEMY_ATTACK_INTERVAL
            THEN /\ enemyAttackTimer' = 0
                 /\ playerHealth' = Max(0, playerHealth - ENEMY_ATTACK_DAMAGE)
            ELSE /\ enemyAttackTimer' = enemyAttackTimer + dt
                 /\ playerHealth' = playerHealth
      ]_vars

\* The last attack took the player from 3 to 0.
C8_Witness ==
    /\ currentState = GAME_OVER
    /\ playerHealth = 0
    /\ enemyAttackTimer = 0
    /\ settings.difficulty = "hard"

\* C9: a frame during a scramble leaves enemyAttackTimer and playerHealth
\* unchanged and stays in Playing; the frame on which scrambleTimer + dt reaches
\* 2000 ms ends the scramble (isScrambling false, scrambleTimer 0, no animation),
\* every earlier one only adds dt to scrambleTimer.
C9_ScrambleSuspendsCombat ==
    [][\A dt \in SecondFrames :
        (Frame(dt) /\ currentState = PLAYING /\ isScrambling) =>
            /\ UNCHANGED <<enemyAttackTimer, playerHealth, score, topEntriesQueries>>
            /\ currentState' = PLAYING
            /\ IF scrambleTimer + dt >= SCRAMBLE_ANIMATION_DURATION
               THEN ~isScrambling' /\ scrambleTimer' = 0 /\ scrambleAnimation' = <<>>
               ELSE /\ isScrambling'
                    /\ scrambleTimer' = scrambleTimer + dt
                    /\ UNCHANGED scrambleAnimation
      ]_vars

\* A frame has passed during a scramble while the enemy was already dead and
\* the attack timer was under way.
C9_Witness ==
    /\ currentState = PLAYING
    /\ isScrambling
    /\ scrambleTimer > 0
    /\ enemyHealth = 0
    /\ enemyAttackTimer > 0

\* C10: currentState becomes LeaderboardNameInput only from GameOver.
C10_NameInputOnlyFromGameOver ==
    [][currentState' = LEADERBOARD_NAME_INPUT =>
        currentState \in {GAME_OVER, LEADERBOARD_NAME_INPUT}]_vars

\* C11: outside Loading every asset group is marked loaded and the progress is
\* 100 %, whatever public commands arrive while the assets load.
C11_LoadedOutsideLoading ==
    currentState # LOADING =>
        /\ \A g \in AssetGroups : loadedAssets[g]
        /\ loadingProgress = 1000

\* C12: a start command leaves, in one step and whatever the run before it
\* left behind, score 0, level 1, targetNumber 10, enemyAttackTimer 0, three
\* scrambles and none in progress, no bonuses, both upgrade counters 0, the
\* player and the enemy at the full health of the selected difficulty, 100
\* unselected cells with values in 1..9, and currentState Playing.
C12_StartResetsRun ==
    [][gamesStarted' # gamesStarted =>
        LET d == settings.difficulty
        IN  /\ score' = 0 /\ level' = 1 /\ targetNumber' = 10
            /\ enemyAttackTimer' = 0
            /\ scramblesRemaining' = 3 /\ ~isScrambling' /\ scrambleTimer' = 0
            /\ healthBonus' = 0 /\ damageBonus' = 0
            /\ damageUpgradeCount' = 0 /\ healthUpgradeCount' = 0
            /\ playerHealth' = (CASE d = "easy" -> 150 [] d = "normal" -> 120 [] d = "hard" -> 75)
            /\ enemyHealth' = (CASE d = "easy" -> 360 [] d = "normal" -> 450 [] d = "hard" -> 540)
            /\ enemyMaxHealth' = enemyHealth'
            /\ \A c \in Cells :
                   /\ grid'[c[2]][c[1]].value \in 1 .. 9
                   /\ ~grid'[c[2]][c[1]].selected
            /\ currentState' = PLAYING
      ]_vars

\* A second game has just started after a run that had reached level 2.
C12_Witness ==
    /\ gamesStarted = 2
    /\ currentState = PLAYING
    /\ lastScrambleBonus > 0
    /\ level = 1
    /\ score = 0

\* C13: choosing an upgrade in ChooseUpgrade gives, in one step, level + 1,
\* targetNumber = nextTarget, three scrambles, playerHealth = base health of
\* the difficulty + healthBonus, the enemy at the full health of the
\* difficulty, a new grid with values in 1..9 and currentState Playing; score
\* is unchanged.
C13_UpgradeStartsNextLevel ==
    [][(currentState = CHOOSE_UPGRADE /\ level' # level) =>
        LET d == settings.difficulty
        IN  /\ level' = level + 1
            /\ targetNumber' = nextTarget
            /\ scramblesRemaining' = 3
            /\ \/ healthBonus' = healthBonus + 5 /\ damageBonus' = damageBonus
               \/ healthBonus' = healthBonus /\ damageBonus' = damageBonus + 5
            /\ playerHealth' =
                   (CASE d = "easy" -> 150 [] d = "normal" -> 120 [] d = "hard" -> 75)
                       + healthBonus'
            /\ enemyHealth' = (CASE d = "easy" -> 360 [] d = "normal" -> 450 [] d = "hard" -> 540)
            /\ enemyMaxHealth' = enemyHealth'
            /\ \A c \in Cells : grid'[c[2]][c[1]].value \in 1 .. 9
            /\ currentState' = PLAYING
            /\ score' = score
      ]_vars

\* Level 2 has begun with the health upgrade, after a level in which a
\* scramble was used.
C13_Witness ==
    /\ level = 2
    /\ currentState = PLAYING
    /\ healthBonus = 5
    /\ playerHealth = 80
    /\ targetNumber = nextTarget
    /\ lastScrambleBonus < 150
    /\ scramblesRemaining = 3
    /\ score > 0

\* C14: the health bonus of a win is floor(score * (playerHealth /
\* playerMaxHealth) * 0.5), playerMaxHealth being the base health of the
\* difficulty + healthBonus, so that it is at most half of the score before
\* the bonus; the scramble bonus is scramblesRemaining * 50. (The floor of the
\* double product may fall one short of the floor of the exact quotient.)
C14_BonusesAsSpecified ==
    [][\A dt \in FrameTimes :
        (Frame(dt) /\ currentState = PLAYING /\ ~isScrambling /\ enemyHealth <= 0) =>
            LET playerMaxHealth == BaseHealth(settings.difficulty) + healthBonus
                exact == (score * playerHealth') \div (2 * playerMaxHealth)
            IN  /\ lastHealthBonus' \in {exact - 1, exact}
                /\ 2 * lastHealthBonus' <= score
                /\ lastScrambleBonus' = scramblesRemaining * 50
      ]_vars

\* C15: a scramble of a grid with n non-zero cells makes an animation list of
\* n entries whose sources are pairwise distinct non-zero positions and whose
\* destinations are pairwise distinct non-zero positions; each destination
\* ends with the value of its source, every 0 cell is still 0 and n cells are
\* still non-zero.
C15_AnimationIsBijection ==
    [][(~isScrambling /\ isScrambling') =>
        LET anim == scrambleAnimation'
            nonZero == {c \in Cells : grid[c[2]][c[1]].value # 0}
            n == Cardinality(nonZero)
            from(k) == <<CellOf(anim[k].oldPos.x), CellOf(anim[k].oldPos.y)>>
            to(k) == <<CellOf(anim[k].newPos.x), CellOf(anim[k].newPos.y)>>
        IN  /\ Len(anim) = n
            /\ {from(k) : k \in 1 .. Len(anim)} = nonZero
            /\ {to(k) : k \in 1 .. Len(anim)} = nonZero
            /\ \A k \in 1 .. Len(anim) :
                   /\ grid'[to(k)[2]][to(k)[1]].value = grid[from(k)[2]][from(k)[1]].value
                   /\ anim[k].value = grid[from(k)[2]][from(k)[1]].value
            /\ \A c \in Cells \ nonZero : grid'[c[2]][c[1]].value = 0
            /\ Cardinality({c \in Cells : grid'[c[2]][c[1]].value # 0}) = n
      ]_vars

\* A scramble is under way on a grid with cleared cells, and it has exchanged
\* two tiles of different values.
C15_Witness ==
    /\ isScrambling
    /\ Len(scrambleAnimation) = GRID_SIZE * GRID_SIZE - GRID_SIZE
    /\ grid[0][0].value = 0
    /\ \E k \in 1 .. Len(scrambleAnimation) :
           scrambleAnimation[k].oldPos # scrambleAnimation[k].newPos
    /\ \E c \in Cells, e \in Cells :
           grid[c[2]][c[1]].value \notin {0, grid[e[2]][e[1]].value}
           /\ grid[e[2]][e[1]].value # 0

\* C16: a release in Playing whose rectangle sum differs from targetNumber
\* changes no cell value and leaves score, enemyHealth, playerHealth, level,
\* targetNumber and scramblesRemaining unchanged; it clears the selected flags
\* and selectedSum and sets isSelecting to false.
C16_MismatchChangesNothing ==
    [][(Release /\ CurrentSum # targetNumber) =>
        /\ \A c \in Cells :
               /\ grid'[c[2]][c[1]].value = grid[c[2]][c[1]].value
               /\ ~grid'[c[2]][c[1]].selected
        /\ UNCHANGED <<score, enemyHealth, playerHealth, level, targetNumber,
                       scramblesRemaining>>
        /\ selectedSum' = 0
        /\ ~isSelecting'
      ]_vars

\* C17: a group marked loaded stays loaded and no group is removed, so the
\* progress (loaded groups / groups * 100, here in tenths of a percent) never
\* decreases and stays within 0..100 %; an event for a group that is already
\* loaded changes neither the load state nor the progress.
C17_ProgressNeverDecreases ==
    [][/\ DOMAIN loadedAssets' = AssetGroups
       /\ \A g \in AssetGroups : loadedAssets[g] => loadedAssets'[g]
       /\ loadingProgress' >= loadingProgress
       /\ loadingProgress' \in 0 .. 1000
       /\ loadingProgress' # loadingProgress =>
              8 * loadingProgress' = 1000 * Cardinality({g \in AssetGroups : loadedAssets'[g]})
       /\ \A g \in AssetGroups :
              (loadedAssets[g] /\ (ElementReports(g) \/ TimeoutFires(g))) =>
                  UNCHANGED <<loadedAssets, loadingProgress>>
      ]_vars

\* The last image of a group has arrived after the group's timeout had marked
\* it loaded, while other groups are still pending.
C17_Witness ==
    /\ timeoutState["avatarSprites"] = "fired"
    /\ loadedCount["avatarSprites"] = TotalElements("avatarSprites")
    /\ loadedAssets["avatarSprites"]
    /\ loadingProgress = 125
    /\ currentState = LOADING

\* C19: when the query of the leaderboard fails, the loadLeaderboard call it
\* ends leaves isLeaderboardAvailable false, no entries and
\* isLoadingLeaderboard false.
C19_FailureShowsUnavailable ==
    [][\A i \in 1 .. Len(leaderboardLoads) : \A q \in QueryOutcomes :
        (/\ ~q.ok
         /\ IsAvailableReturns(i, q) \/ LeaderboardEntriesReturn(i, q)
         /\ Len(leaderboardLoads') < Len(leaderboardLoads)) =>
            /\ ~isLeaderboardAvailable'
            /\ leaderboardEntries' = <<>>
            /\ ~isLoadingLeaderboard'
      ]_vars

\* The step is a submit of the name: the Enter key or the Submit button.
SubmitCommand ==
    /\ currentState = LEADERBOARD_NAME_INPUT
    /\ \/ OnKeyDown("Enter")
       \/ OnMouseDown(Centre(LEADERBOARD_NAME_SUBMIT_BUTTON), DrawnValues(<<>>), <<>>)

\* The step is a skip: the Escape key or the Skip button.
SkipCommand ==
    /\ currentState = LEADERBOARD_NAME_INPUT
    /\ \/ OnKeyDown("Escape")
       \/ OnMouseDown(Centre(LEADERBOARD_NAME_SKIP_BUTTON), DrawnValues(<<>>), <<>>)

C20_RefusedNameActsAsSkip ==
    [][(/\ SubmitCommand
        /\ \/ \A i \in 1 .. Len(leaderboardNameInput) : leaderboardNameInput[i] = " "
           \/ ContainsProfanity(leaderboardNameInput)) =>
            /\ entriesWritten' = entriesWritten
            /\ addEntryCalls' = addEntryCalls
            /\ currentState' = GAME_OVER
      ]_vars

\* Game over was entered with a filtered word in mixed case in the input and
\* no entry written.
C20_Witness ==
    /\ currentState = GAME_OVER
    /\ ToLowerCase(leaderboardNameInput) = <<" ", "c", "u", "m">>
    /\ leaderboardNameInput # ToLowerCase(leaderboardNameInput)
    /\ entriesWritten = 0

\* C21: when the list asked for at defeat arrives, the name input is offered
\* with pendingLeaderboardScore set to the final score if and only if the list
\* has fewer than 10 entries or the final score is strictly greater than the
\* score of its last entry; otherwise nothing is offered and a GameOver state
\* stays GameOver.
C21_QualifiesIffShortOrBeaten ==
    [][\A i \in 1 .. Len(topEntriesQueries) : \A entries \in TopEntriesLists :
        TopEntriesArrive(i, entries) =>
            LET final == topEntriesQueries[i].finalScore
                beats == Len(entries) < 10 \/ final > entries[Len(entries)].score
            IN  /\ beats => /\ pendingLeaderboardScore' = final
                            /\ currentState' = LEADERBOARD_NAME_INPUT
                /\ ~beats => /\ UNCHANGED <<pendingLeaderboardScore, currentState>>
                             /\ currentState = GAME_OVER => currentState' = GAME_OVER
      ]_vars

\* The name input is offered for a final score that beats the last entry of
\* a full board.
C21_Witness ==
    /\ currentState = LEADERBOARD_NAME_INPUT
    /\ pendingLeaderboardScore > 200
    /\ topEntriesQueries = <<>>

\* C22: a health upgrade adds exactly 5 to healthBonus and leaves damageBonus
\* alone, a damage upgrade adds exactly 0.5 (5 tenths) to damageBonus and
\* leaves healthBonus alone; within a run neither bonus decreases, and after
\* k health and m damage upgrades (k + m = level - 1) healthBonus = 5k and
\* damageBonus = 0.5m.
C22_UpgradesAccumulate ==
    /\ [](\E k \in 0 .. (level - 1) :
            /\ healthBonus = 5 * k
            /\ damageBonus = 5 * (level - 1 - k))
    /\ [][(/\ currentState = CHOOSE_UPGRADE
           /\ OnMouseDown(Centre(CHOOSE_UPGRADE_HEALTH_BUTTON), DrawnValues(<<>>), <<>>)) =>
             (healthBonus' = healthBonus + 5 /\ damageBonus' = damageBonus)]_vars
    /\ [][(/\ currentState = CHOOSE_UPGRADE
           /\ OnMouseDown(Centre(CHOOSE_UPGRADE_DAMAGE_BUTTON), DrawnValues(<<>>), <<>>)) =>
             (damageBonus' = damageBonus + 5 /\ healthBonus' = healthBonus)]_vars
    /\ [][(gamesStarted' = gamesStarted /\ currentState' # MENU) =>
             (healthBonus' >= healthBonus /\ damageBonus' >= damageBonus)]_vars

\* Two health upgrades have been taken in one run.
C22_Witness ==
    /\ currentState = PLAYING
    /\ level = 3
    /\ healthBonus = 10
    /\ damageBonus = 0

\* C23: when the difficulty is applied, at the start of a run or of a level,
\* damageBase is 8 / 10 / 12, the player's health is 150 / 120 / 75 plus the
\* health bonus, and enemyMaxHealth is 360 / 450 / 540 for easy / normal /
\* hard, so that enemyMaxHealth is 45 times damageBase on every difficulty.
C23_DifficultyTable ==
    /\ [][(gamesStarted' # gamesStarted \/ level' = level + 1) =>
            LET d == settings.difficulty
                base == CASE d = "easy" -> 8 [] d = "normal" -> 10 [] d = "hard" -> 12
                health == CASE d = "easy" -> 150 [] d = "normal" -> 120 [] d = "hard" -> 75
                enemy == CASE d = "easy" -> 360 [] d = "normal" -> 450 [] d = "hard" -> 540
            IN  /\ damageBase' = base
                /\ playerHealth' = health + healthBonus'
                /\ enemyMaxHealth' = enemy
                /\ enemyMaxHealth' = (450 * base) \div 10
                /\ enemyHealth' = enemy
          ]_vars
    /\ [](currentState \in {PLAYING, CHOOSE_UPGRADE} => enemyMaxHealth = 45 * damageBase)

\* The second level has started on easy after a health upgrade.
C23_Witness ==
    /\ settings.difficulty = "easy"
    /\ currentState = PLAYING
    /\ level = 2
    /\ damageBase = 8
    /\ enemyMaxHealth = 360
    /\ playerHealth = 155

\* C24: in Playing, a press or a move of the pointer at a point whose cell
\* coordinates fall outside [0,9] x [0,9], and that is not on the scramble
\* button, changes neither the grid nor selectionStart, selectionEnd,
\* selectedSum and isSelecting.
C24_OutsidePointerIsNoOp ==
    [][\A p \in OutsidePoints :
        (/\ currentState = PLAYING
         /\ p.x < 0 \/ p.x >= 400 \/ p.y < 0 \/ p.y >= 400
         /\ OnMouseDown(p, DrawnValues(<<>>), <<>>) \/ OnMouseMove(p)) =>
            UNCHANGED <<grid, isSelecting, selectionStart, selectionEnd, selectedSum>>
      ]_vars

\* A selection is under way that a move outside the grid would otherwise
\* extend.
C24_Witness ==
    /\ currentState = PLAYING
    /\ isSelecting
    /\ ~isScrambling
    /\ selectionStart = [x |-> 2, y |-> 1]
    /\ selectionEnd = [x |-> 0, y |-> 0]
    /\ selectedSum = 9

\* C25: every command handled in Options, a press, a drag or a release of
\* the pointer, leaves playerHealth, enemyHealth, enemyAttackTimer,
\* damageBase, the bonuses, the grid, score, level, targetNumber and
\* scramblesRemaining unchanged; Options is entered from Menu only and its
\* back button returns to Menu.
C25_OptionsLeaveCombatAlone ==
    /\ [][(/\ currentState = OPTIONS
           /\ \/ \E p \in OptionsPoints :
                    OnMouseDown(p, DrawnValues(<<>>), <<>>) \/ OnMouseMove(p)
              \/ OnMouseUp) =>
            UNCHANGED <<playerHealth, enemyHealth, enemyAttackTimer, damageBase,
                        healthBonus, damageBonus, grid, score, level, targetNumber,
                        scramblesRemaining>>
          ]_vars
    /\ [][(currentState # OPTIONS /\ currentState' = OPTIONS) => currentState = MENU]_vars
    /\ [][(/\ currentState = OPTIONS
           /\ OnMouseDown(Centre(OPTIONS_BACK_BUTTON), DrawnValues(<<>>), <<>>)) =>
            currentState' = MENU]_vars

\* After a game with a match and an enemy attack, the options were opened,
\* hard was chosen and the music slider was dragged to its right end.
C25_Witness ==
    /\ currentState = OPTIONS
    /\ gamesStarted = 1
    /\ score > 0
    /\ playerHealth < MAX_HEALTH
    /\ settings.difficulty = "hard"
    /\ settings.bgmVolume = 200
    /\ isDraggingBGM
    /\ damageBase = NORMAL_DAMAGE_BASE

\* C26: a frame received in a state other than Playing leaves playerHealth,
\* enemyHealth, enemyAttackTimer, score, level, targetNumber, nextTarget,
\* the grid, scramblesRemaining, isScrambling, scrambleTimer and
\* currentState unchanged.
C26_FramesOutsidePlayingChangeNothing ==
    [][\A dt \in FrameTimes :
        (currentState # PLAYING /\ Frame(dt)) =>
            UNCHANGED <<playerHealth, enemyHealth, enemyAttackTimer, score, level,
                        targetNumber, nextTarget, grid, scramblesRemaining, isScrambling,
                        scrambleTimer, currentState>>
      ]_vars

\* The menu is shown after a lost game in which points were scored: the
\* player is dead and frames keep arriving.
C26_Witness ==
    /\ currentState = MENU
    /\ gamesStarted = 1
    /\ playerHealth = 0
    /\ score > 0
    /\ enemyHealth > 0

\* C27: a press or a drag that calls updateSelection with selectionStart and
\* selectionEnd inside the grid leaves exactly the cells of the inclusive
\* rectangle [min x, max x] x [min y, max y] selected and selectedSum equal to
\* the sum of their values, the values themselves untouched; start and end
\* exchanged give the same result, and a 1x1 rectangle gives the value of its
\* cell.
C27_SelectionIsTheRectangle ==
    [][(/\ currentState = PLAYING
        /\ isSelecting'
        /\ ~isSelecting \/ selectionStart' # selectionStart \/ selectionEnd' # selectionEnd) =>
            LET s == selectionStart'
                e == selectionEnd'
                loX == IF s.x <= e.x THEN s.x ELSE e.x
                hiX == IF s.x <= e.x THEN e.x ELSE s.x
                loY == IF s.y <= e.y THEN s.y ELSE e.y
                hiY == IF s.y <= e.y THEN e.y ELSE s.y
                rect == {c \in Cells : loX <= c[1] /\ c[1] <= hiX /\ loY <= c[2] /\ c[2] <= hiY}
                count == [v \in 1 .. 9 |-> Holding(grid', rect, v)]
            IN  /\ \A c \in Cells : grid'[c[2]][c[1]].selected <=> c \in rect
                /\ \A c \in Cells : grid'[c[2]][c[1]].value = grid[c[2]][c[1]].value
                /\ selectedSum' = 1 * count[1] + 2 * count[2] + 3 * count[3] + 4 * count[4]
                       + 5 * count[5] + 6 * count[6] + 7 * count[7] + 8 * count[8]
                       + 9 * count[9]
                /\ s = e => selectedSum' = grid'[s.y][s.x].value
                /\ UpdateSelectionGrid(grid, s, e) = UpdateSelectionGrid(grid, e, s)
                /\ UpdateSelectionSum(grid, s, e) = UpdateSelectionSum(grid, e, s)
      ]_vars

\* A selection dragged up and to the left over cells that a match has
\* emptied and cells that still hold a value.
C27_Witness ==
    /\ currentState = PLAYING
    /\ isSelecting
    /\ selectionStart = [x |-> 2, y |-> 1]
    /\ selectionEnd = [x |-> 0, y |-> 0]
    /\ grid[0][0].value = 0
    /\ grid[1][0].value = 1
    /\ selectedSum = 3
    /\ \A c \in Cells : grid[c[2]][c[1]].selected <=> (c[1] <= 2 /\ c[2] <= 1)

\* C28: the rectangle that a match has cleared sums to 0, holds 0 tiles with
\* a value and as many empty tiles as its area; whenever a rectangle of
\* emptied cells is selected again selectedSum is 0, and since targetNumber
\* is at least 10 its release resolves no match.
C28_ClearedRectangleNeverMatches ==
    /\ [](targetNumber >= 10)
    /\ [][(Release /\ MatchResolved) =>
            /\ \A c \in SelectedCells : grid'[c[2]][c[1]].value = 0
            /\ UpdateSelectionSum(grid', selectionStart, selectionEnd) = 0
            /\ TilesWithValues(grid', selectionStart, selectionEnd) = 0
            /\ TotalTilesInSelection(selectionStart, selectionEnd)
                   - TilesWithValues(grid', selectionStart, selectionEnd)
                   = Cardinality(SelectedCells)
          ]_vars
    /\ [][(/\ currentState = PLAYING
           /\ isSelecting'
           /\ ~isSelecting \/ selectionStart' # selectionStart
                  \/ selectionEnd' # selectionEnd
           /\ \A c \in Cells : grid'[c[2]][c[1]].selected => grid[c[2]][c[1]].value = 0) =>
            selectedSum' = 0
          ]_vars
    /\ [][(Release /\ \A c \in SelectedCells : grid[c[2]][c[1]].value = 0) =>
            (score' = score /\ enemyHealth' = enemyHealth)]_vars

\* The four cells that a match emptied are selected again.
C28_Witness ==
    /\ currentState = PLAYING
    /\ isSelecting
    /\ selectionStart = [x |-> 0, y |-> 0]
    /\ selectionEnd = [x |-> 3, y |-> 0]
    /\ \A x \in 0 .. 3 : grid[0][x].value = 0 /\ grid[0][x].selected
    /\ selectedSum = 0
    /\ score = 4 * POINTS_PER_TILE

\* The step regenerates the grid: a game starts, the next level starts, or
\* the game is restarted.
Regenerated == gamesStarted' > gamesStarted \/ level' = level + 1 \/ Restart

C30_TargetFollowsLevel ==
    /\ [][(currentState = PLAYING /\ currentState' = CHOOSE_UPGRADE) =>
            /\ nextTarget' \in {9 + (level + 1), 9 + (level + 1) + 1}
            /\ targetNumber' = targetNumber
            /\ level' = level]_vars
    /\ [][(currentState = CHOOSE_UPGRADE /\ currentState' = CHOOSE_UPGRADE) =>
            UNCHANGED <<targetNumber, nextTarget>>]_vars
    /\ [][(level' = level + 1) =>
            (targetNumber' = nextTarget /\ nextTarget' = nextTarget)]_vars
    /\ [](currentState = PLAYING =>
            IF level = 1 THEN targetNumber = 10
            ELSE targetNumber \in {level + 9, level + 10})

\* The third level is played for a target of 13: the second was won for 12.
C30_Witness ==
    /\ currentState = PLAYING
    /\ level = 3
    /\ targetNumber = 13
    /\ nextTarget = 13

\* C31: the frame that finds the player defeated hands the leaderboard query
\* round(score * m), m = 0.75 / 1.0 / 1.25 for easy / normal / hard, taken from
\* the score and the difficulty at that frame; pendingLeaderboardScore changes
\* only when a query returns, and then to the final score of that query.
C31_FinalScoreIsScaledScore ==
    /\ [][\A dt \in FrameTimes :
            (Frame(dt) /\ currentState = PLAYING /\ ~isScrambling /\ playerHealth' <= 0) =>
                LET final == CASE settings.difficulty = "easy" -> (3 * score + 2) \div 4
                               [] settings.difficulty = "normal" -> score
                               [] settings.difficulty = "hard" -> (5 * score + 2) \div 4
                IN  topEntriesQueries' = Append(topEntriesQueries, [finalScore |-> final])
         ]_vars
    /\ [][pendingLeaderboardScore' # pendingLeaderboardScore =>
            \E i \in 1 .. Len(topEntriesQueries) : \E entries \in TopEntriesLists :
                /\ TopEntriesArrive(i, entries)
                /\ pendingLeaderboardScore' = topEntriesQueries[i].finalScore
         ]_vars

\* The name input holds the rounded final score of an Easy run: a score of
\* 210 at the defeat, 0.75 * 210 = 157.5, stored as 158.
C31_Witness ==
    /\ currentState = LEADERBOARD_NAME_INPUT
    /\ settings.difficulty = "easy"
    /\ score = 210
    /\ pendingLeaderboardScore = 158

\* C32: clearSelection applied to the grid of any reachable state lowers every
\* selected flag and keeps every cell value, and applied to its own result it
\* changes nothing; a release whose sum misses the target applies it, leaving
\* selectedSum 0 and a grid on which a further clearSelection has no effect.
C32_ClearSelectionIsIdempotent ==
    /\ [](LET once == ClearSelectionGrid(grid)
          IN  /\ ClearSelectionGrid(once) = once
              /\ \A c \in Cells : /\ ~once[c[2]][c[1]].selected
                                  /\ once[c[2]][c[1]].value = grid[c[2]][c[1]].value)
    /\ [][(OnMouseUp /\ Release /\ selectedSum # targetNumber) =>
            /\ selectedSum' = 0
            /\ \A c \in Cells : /\ ~grid'[c[2]][c[1]].selected
                                /\ grid'[c[2]][c[1]].value = grid[c[2]][c[1]].value
            /\ ClearSelectionGrid(grid') = grid'
         ]_vars

\* A dragged selection has been released without a match (the score is still
\* 0), so clearSelection has acted: no flag is up and selectedSum is 0.
C32_Witness ==
    /\ currentState = PLAYING
    /\ ~isSelecting
    /\ selectionStart # selectionEnd
    /\ score = 0
    /\ selectedSum = 0
    /\ \A c \in Cells : ~grid[c[2]][c[1]].selected

\* C33: scramblesRemaining is always in 0..3; the scramble command (the
\* Scramble button in Playing, or scrambleBoard called directly) changes
\* nothing unless currentState = Playing, isScrambling is false and
\* scramblesRemaining > 0, and then it lowers scramblesRemaining by exactly 1
\* and sets isScrambling with scrambleTimer = 0; scramblesRemaining changes in
\* no other way than that decrement and the return to 3 with a fresh grid, so
\* that at most 3 scrambles happen in a level.
C33_ScramblesAreCounted ==
    /\ [](scramblesRemaining \in 0 .. 3)
    /\ [][\A js \in Draws(NonZeroCount, 1) :
            (\/ ScrambleBoard(js)
             \/ /\ currentState = PLAYING
                /\ OnMouseDown(Centre(PLAYING_SCRAMBLE_BUTTON), DrawnValues(<<>>), js)) =>
                IF currentState = PLAYING /\ ~isScrambling /\ scramblesRemaining > 0
                THEN /\ scramblesRemaining' = scramblesRemaining - 1
                     /\ isScrambling'
                     /\ scrambleTimer' = 0
                ELSE UNCHANGED vars
         ]_vars
    /\ [][scramblesRemaining' # scramblesRemaining =>
            \/ /\ scramblesRemaining' = scramblesRemaining - 1
               /\ currentState = PLAYING /\ ~isScrambling /\ isScrambling'
               /\ level' = level /\ gamesStarted' = gamesStarted
            \/ /\ scramblesRemaining' = 3
               /\ Regenerated
         ]_vars

\* The three scrambles of the first level are used up and the last one has
\* finished: a further scramble command meets scramblesRemaining = 0.
C33_Witness ==
    /\ currentState = PLAYING
    /\ level = 1
    /\ scramblesRemaining = 0
    /\ ~isScrambling

\* C34: the first frame after a Menu -> Playing transition starts a fade-in
\* (bgmFadeInProgress becomes true), the first frame after a Playing -> Menu
\* transition starts a fade-out, and the first frame after any other state
\* change sets the volume to its target at once with both fade flags false.
C34_FadesStartOnTransitions ==
    [][\A dt \in FrameTimes :
        Frame(dt) =>
            LET target == IF currentState = MENU \/ settings.muted
                          THEN 0 ELSE settings.bgmVolume
            IN  /\ (previousState = MENU /\ currentState = PLAYING) =>
                        bgmFadeInProgress' /\ ~bgmFadeOutProgress'
                /\ (previousState = PLAYING /\ currentState = MENU) =>
                        bgmFadeOutProgress' /\ ~bgmFadeInProgress'
                /\ (/\ previousState # currentState
                    /\ <<previousState, currentState>> \notin
                           {<<MENU, PLAYING>>, <<PLAYING, MENU>>}) =>
                        /\ bgmAudioVolume' = target
                        /\ ~bgmFadeInProgress' /\ ~bgmFadeOutProgress'
      ]_vars

\* C35: while isScrambling is true no input command (pointer down, move or
\* up, or the scramble command) changes a cell value, the score or
\* enemyHealth, and none starts a selection.
C35_InputsIgnoredWhileScrambling ==
    [][(isScrambling /\ (ScrambleClick \/ CellPress \/ ColumnDrag \/ MouseUp)) =>
            /\ \A c \in Cells : grid'[c[2]][c[1]].value = grid[c[2]][c[1]].value
            /\ score' = score
            /\ enemyHealth' = enemyHealth
            /\ ~isSelecting => ~isSelecting'
      ]_vars

\* C36: isSelecting is false in the state that startGame or nextLevel
\* leaves, so that a selection left open when the previous run or level ended
\* is not carried onto the new grid.
C36_NewGridStartsUnselected ==
    [][(gamesStarted' > gamesStarted \/ level' = level + 1) => ~isSelecting']_vars

\* C37: when the addEntry call of a submit returns, currentState becomes
\* GameOver only if it still is LeaderboardNameInput; in any other state
\* (Playing, ChooseUpgrade, Menu, GameOver) the return leaves it as it is.
C37_LateWriteLeavesStateAlone ==
    [][(addEntryCalls' < addEntryCalls /\ currentState # LEADERBOARD_NAME_INPUT) =>
            currentState' = currentState]_vars

\* C38: a submit command issued while the addEntry call of an earlier submit
\* is still awaited makes no further addEntry call, so that at most one entry
\* is written for a defeat.
C38_OneEntryPerDefeat ==
    [][(SubmitCommand /\ addEntryCalls > 0) =>
            /\ entriesWritten' = entriesWritten
            /\ addEntryCalls' = addEntryCalls]_vars

\* C39: settings.difficulty changes only in steps that begin and end in
\* Options, and Options is entered only from Menu, so the difficulty stays as
\* it is while a run is in Playing or ChooseUpgrade; and a run uses that one
\* difficulty throughout: damageBase is 8 / 10 / 12 and enemyMaxHealth is
\* 360 / 450 / 540 for easy / normal / hard in every state of the run, each
\* new level restores playerHealth to 150 / 120 / 75 + healthBonus and
\* enemyHealth to enemyMaxHealth, and the frame of the defeat hands over
\* round(score * 0.75 / 1.0 / 1.25).
C39_OneDifficultyPerRun ==
    /\ [][settings.difficulty' # settings.difficulty =>
            currentState = OPTIONS /\ currentState' = OPTIONS]_vars
    /\ [][(currentState' = OPTIONS /\ currentState # OPTIONS) => currentState = MENU]_vars
    /\ [][(currentState \in {PLAYING, CHOOSE_UPGRADE}) =>
            settings.difficulty' = settings.difficulty]_vars
    /\ [](currentState \in {PLAYING, CHOOSE_UPGRADE} =>
            LET d == settings.difficulty
            IN  /\ damageBase = (CASE d = "easy" -> 8 [] d = "normal" -> 10 [] d = "hard" -> 12)
                /\ enemyMaxHealth =
                       (CASE d = "easy" -> 360 [] d = "normal" -> 450 [] d = "hard" -> 540))
    /\ [][level' = level + 1 =>
            LET d == settings.difficulty
                health == (CASE d = "easy" -> 150 [] d = "normal" -> 120 [] d = "hard" -> 75)
            IN  /\ playerHealth' = health + healthBonus'
                /\ enemyHealth' = (CASE d = "easy" -> 360 [] d = "normal" -> 450 [] d = "hard" -> 540)
                /\ damageBase' = (CASE d = "easy" -> 8 [] d = "normal" -> 10 [] d = "hard" -> 12)
         ]_vars
    /\ [][Len(topEntriesQueries') > Len(topEntriesQueries) =>
            LET d == settings.difficulty
                final == (CASE d = "easy" -> (3 * score + 2) \div 4
                            [] d = "normal" -> score
                            [] d = "hard" -> (5 * score + 2) \div 4)
            IN  topEntriesQueries'[Len(topEntriesQueries')].finalScore = final
         ]_vars

\* The second level of a run on Hard, a difficulty that was chosen in the
\* options, after a health upgrade: 75 + 5 health against 540.
C39_Witness ==
    /\ currentState = PLAYING
    /\ settings.difficulty = "hard"
    /\ level = 2
    /\ playerHealth = 80
    /\ enemyHealth = 540
    /\ damageBase = 12
    /\ score > 0
====
